---- MODULE Spec2Model ----
(***************************************************************************)
(* Graphics pipeline creation, static-state token caching and pipeline     *)
(* binding of the xgl Vulkan driver (icd/api/vk_graphics_pipeline.cpp).    *)
(*                                                                         *)
(* A pipeline is created from a create-info by GraphicsPipeline::Create    *)
(* (BuildPatchedShaders, one native pipeline per device of the group, the  *)
(* fixed-function state objects, CreateStaticState), destroyed by          *)
(* GraphicsPipeline::Destroy and bound to a command buffer by              *)
(* GraphicsPipeline::BindToCmdBuffer.  Every operation is one action; the  *)
(* variable last records what the most recent operation did (the calls it  *)
(* made to its collaborators), so that the properties can speak about it.  *)
(*                                                                         *)
(* Of the device (icd/api/vk_device.cpp) the module covers the default     *)
(* sample patterns, Device::CreateGraphicsPipelines, the pipeline-cache    *)
(* counter under concurrent callers, Device::Create / Device::Initialize   *)
(* and Device::CreateLlpcInternalComputePipeline; of the compiler, the     *)
(* dead-function removal pass (llpc/util/llpcPassDeadFuncRemove.cpp).      *)
(***************************************************************************)
EXTENDS Integers, Sequences, FiniteSets, TLC

VARIABLES
    numPalDevices,   \* Device::NumPalDevices(): size of the device group
    pipelines,       \* pipeline handle -> GraphicsPipeline object, or NoPipeline
    cache,           \* RenderStateCache: per category, the token entries
    renderState,     \* CmdBufferRenderState::allGpuState of the command buffer
    stencil,         \* StencilOpsCombiner values of the command buffer
    last,            \* record of the most recent operation
    settings,        \* GetRuntimeSettings() and the build configuration
    m_pipelineCacheCount,  \* Device::m_pipelineCacheCount
    calls,           \* thread -> its call on the pipeline-cache counter
    completed        \* calls on the pipeline-cache counter that have returned

vars == <<numPalDevices, pipelines, cache, renderState, stencil, last,
          settings, m_pipelineCacheCount, calls, completed>>

\* The device's pipeline-cache counter and its callers.
counterVars == <<settings, m_pipelineCacheCount, calls, completed>>

\* The graphics pipelines and the command buffer.
graphicsVars == <<numPalDevices, pipelines, cache, renderState, stencil, last>>

(***************************************************************************)
(* Bounds of the model.                                                    *)
(***************************************************************************)
MaxDevices   == 2    \* device groups of 1..MaxDevices devices
MaxPipelines == 2    \* pipeline objects alive at a time
MaxStages    == 2    \* active shader stages of a create-info
MaxToken     == 2    \* tokens a cache map hands out before it takes no new value
MaxLookups   == 3    \* default-pattern lookups in a row
MaxCount     == 3     \* create-infos in one vkCreateGraphicsPipelines call
MaxChain     == 2    \* blocks chained to the rasterization state
MaxThreads   == 2    \* threads calling the pipeline-cache counter
MaxCalls     == 3    \* GetPipelineCacheExpectedEntryCount calls of a behaviour
MaxThreshold == 3    \* largest excessivePipelineCacheCountThreshold explored
MaxFuncs     == 4    \* functions of an LLVM module
MaxIterCountOfDetection == 4   \* sweep limit of PassDeadFuncRemove, as explored

VK_NULL_HANDLE == 0
DynamicRenderStateToken == 0

Values == {1, 2}            \* contents of a parameter block

Devices == 0 .. (numPalDevices - 1)
Handles == 1 .. MaxPipelines
NoPipeline == [live |-> FALSE]

(***************************************************************************)
(* DynamicStatesInternal: the state categories a pipeline may leave        *)
(* dynamic, and the categories of static tokens of ImmedInfo.staticTokens. *)
(***************************************************************************)
DynamicStates ==
    {"VIEWPORT", "SCISSOR", "LINE_WIDTH", "DEPTH_BIAS", "BLEND_CONSTANTS",
     "DEPTH_BOUNDS", "STENCIL_COMPARE_MASK", "STENCIL_WRITE_MASK",
     "STENCIL_REFERENCE", "SAMPLE_LOCATIONS_EXT"}

TokenCats ==
    {"inputAssemblyState", "triangleRasterState", "pointLineRasterState",
     "depthBias", "blendConst", "depthBounds", "viewport", "scissorRect",
     "samplePattern"}

\* The categories whose token is always taken from the cache.
AlwaysStatic == {"inputAssemblyState", "triangleRasterState"}

\* The DynamicStatesInternal bit that guards a token category.
StateOf(c) ==
    CASE c = "pointLineRasterState" -> "LINE_WIDTH"
      [] c = "depthBias"            -> "DEPTH_BIAS"
      [] c = "blendConst"           -> "BLEND_CONSTANTS"
      [] c = "depthBounds"          -> "DEPTH_BOUNDS"
      [] c = "viewport"             -> "VIEWPORT"
      [] c = "scissorRect"          -> "SCISSOR"
      [] c = "samplePattern"        -> "SAMPLE_LOCATIONS_EXT"
      [] OTHER                      -> "NONE"

StateKinds == {"msaa", "colorBlend", "depthStencil"}

(***************************************************************************)
(* The default sample patterns of the device (vk_device.cpp): the sample   *)
(* positions of a pixel per sample count, a quad pattern of four pixels,   *)
(* and the two lookups by sample count.                                    *)
(***************************************************************************)
MaxMsaaRasterizerSamples == 16

VK_DEFAULT_SAMPLE_PATTERN_1X == << <<0, 0>> >>

VK_DEFAULT_SAMPLE_PATTERN_2X == << <<-4, -4>>, <<4, 4>> >>

VK_DEFAULT_SAMPLE_PATTERN_4X == << <<-2, -6>>, <<6, -2>>, <<-6, 2>>, <<2, 6>> >>

VK_DEFAULT_SAMPLE_PATTERN_8X ==
    << <<1, -3>>, <<-1, 3>>, <<5, 1>>, <<-3, -5>>,
       <<-5, 5>>, <<-7, -1>>, <<3, 7>>, <<7, -7>> >>

VK_DEFAULT_SAMPLE_PATTERN_16X ==
    << <<1, 1>>, <<-1, -3>>, <<-3, 2>>, <<4, -1>>,
       <<-5, -2>>, <<2, 5>>, <<5, 3>>, <<3, 5>>,
       <<-2, 6>>, <<0, -7>>, <<-4, -6>>, <<-6, -6>>,
       <<-8, 0>>, <<7, -4>>, <<6, 7>>, <<-7, -8>> >>

\* An array of MaxMsaaRasterizerSamples offsets initialised from a shorter
\* list: the remaining entries are zero.
SamplePositions(list) ==
    [i \in 1 .. MaxMsaaRasterizerSamples |->
        IF i <= Len(list) THEN list[i] ELSE <<0, 0>>]

\* A quad pattern whose pixels differ: the right and bottom pixels mirrored.
MirroredQuadPattern(list) ==
    LET flip(l, fx, fy) == [i \in 1 .. Len(l) |-> <<fx * l[i][1], fy * l[i][2]>>]
    IN  [topLeft     |-> SamplePositions(list),
         topRight    |-> SamplePositions(flip(list, -1, 1)),
         bottomLeft  |-> SamplePositions(flip(list, 1, -1)),
         bottomRight |-> SamplePositions(flip(list, -1, -1))]

\* Pal::MsaaQuadSamplePattern initialised with the same list for each pixel.
QuadSamplePattern(list) ==
    [topLeft     |-> SamplePositions(list),
     topRight    |-> SamplePositions(list),
     bottomLeft  |-> SamplePositions(list),
     bottomRight |-> SamplePositions(list)]

nullptr == [null |-> TRUE]

\* Device::GetDefaultQuadSamplePattern once VK_NEVER_CALLED has let the
\* call go on: the pattern of the count, or nullptr.
GetDefaultQuadSamplePattern(sampleCount) ==
    CASE sampleCount = 1  -> QuadSamplePattern(VK_DEFAULT_SAMPLE_PATTERN_1X)
      [] sampleCount = 2  -> QuadSamplePattern(VK_DEFAULT_SAMPLE_PATTERN_2X)
      [] sampleCount = 4  -> QuadSamplePattern(VK_DEFAULT_SAMPLE_PATTERN_4X)
      [] sampleCount = 8  -> QuadSamplePattern(VK_DEFAULT_SAMPLE_PATTERN_8X)
      [] sampleCount = 16 -> QuadSamplePattern(VK_DEFAULT_SAMPLE_PATTERN_16X)
      [] OTHER            -> nullptr

\* Device::GetDefaultSamplePatternIndex once VK_NEVER_CALLED has let the
\* call go on: the table index of the count, or the initial value 0.
GetDefaultSamplePatternIndex(sampleCount) ==
    CASE sampleCount = 1  -> 0
      [] sampleCount = 2  -> 1
      [] sampleCount = 4  -> 2
      [] sampleCount = 8  -> 3
      [] sampleCount = 16 -> 4
      [] OTHER            -> 0

\* The default case of the two switches: VK_NEVER_CALLED is reached.
NeverCalledReached(sampleCount) == sampleCount \notin {1, 2, 4, 8, 16}

(***************************************************************************)
(* BuildPatchedShaders, first half: the create-info is parsed into the     *)
(* static-state mask and the immediate state (ImmedInfo).                  *)
(*                                                                         *)
(* A create-info is a record                                               *)
(*   stageCount, hasLayout, tempBufferSize   shader stages and layout      *)
(*   dynamicStates                           pDynamicState                 *)
(*   hasViewportState, viewportCount         pViewportState                *)
(*   depthBiasEnable                         pRasterizationState           *)
(*   rasterizationNext                       the blocks chained to it by   *)
(*                                           pNext: a sequence of          *)
(*                                           [sType, depthBiasEnable,      *)
(*                                           polygonMode, value]           *)
(*   rasterizationSamples, customSampleLocations,                          *)
(*   sampleShadingEnable, minSampleShading   pMultisampleState (a create-  *)
(*                                           info without the block reads  *)
(*                                           as one of a single sample);   *)
(*                                           minSampleShading is the       *)
(*                                           fraction <<num, den>>         *)
(*   colorSampleCount                        GetSubpassColorSampleCount of *)
(*                                           the render pass               *)
(*   colorTargets                            pColorBlendState: per         *)
(*                                           attachment its blendEnable    *)
(*                                           and whether the subpass gives *)
(*                                           it a defined format           *)
(*   hasDepthStencil, depthBoundsTestEnable  pDepthStencilState            *)
(*   raster, value                           contents of the triangle      *)
(*                                           raster block / other blocks   *)
(*   binary                                  contents of the shaders       *)
(***************************************************************************)
\* dynamicStateFlags[s] after the loop over pDynamicStates: an identifier
\* of the core range or SAMPLE_LOCATIONS_EXT sets its flag, any other is
\* skipped.
dynamicStateFlags(ci, s) ==
    \E id \in ci.dynamicStates : id \in DynamicStates /\ id = s

(***************************************************************************)
(* GraphicsPipeline::BuildRasterizationState: the walk over the chain that  *)
(* starts at pRasterizationState.  st holds what the walk has written: the  *)
(* result, the blocks visited (by position), the fields of the description  *)
(* and the bits it has set in the static-state mask.                       *)
(***************************************************************************)
RasterizationChain(ci) ==
    << [sType           |-> "PIPELINE_RASTERIZATION_STATE_CREATE_INFO",
        depthBiasEnable |-> ci.depthBiasEnable,
        polygonMode     |-> ci.raster,
        value           |-> ci.value] >> \o ci.rasterizationNext

RasterizationStart ==
    [result                  |-> "VK_SUCCESS",
     visited                 |-> << >>,
     rasterizerDiscardEnable |-> TRUE,
     triangleRasterState     |-> [fill |-> 0, depthBiasEnable |-> FALSE],
     depthBiasParams         |-> 0,
     pointLineRasterParams   |-> 0,
     outOfOrderPrimsEnable   |-> 0,
     staticStateMask         |-> {}]

\* The body of the loop where a block of unknown kind is read as a
\* rasterization-order block.
RasterizationBlockNoSkip(ci, st, b) ==
    IF b.sType = "PIPELINE_RASTERIZATION_STATE_CREATE_INFO"
    THEN [st EXCEPT
            !.rasterizerDiscardEnable = FALSE,
            !.triangleRasterState = [fill |-> b.polygonMode,
                                     depthBiasEnable |-> b.depthBiasEnable],
            !.depthBiasParams = b.value,
            !.pointLineRasterParams = b.value,
            !.staticStateMask =
                @ \cup (IF b.depthBiasEnable /\ ~dynamicStateFlags(ci, "DEPTH_BIAS")
                        THEN {"DEPTH_BIAS"} ELSE {})
                  \cup (IF ~dynamicStateFlags(ci, "LINE_WIDTH")
                        THEN {"LINE_WIDTH"} ELSE {})]
    ELSE [st EXCEPT !.outOfOrderPrimsEnable = b.value]

\* The body of the loop (the switch on sType) for the block b.
RasterizationBlock(ci, st, b) ==
    CASE b.sType = "PIPELINE_RASTERIZATION_STATE_CREATE_INFO" ->
            [st EXCEPT
                !.rasterizerDiscardEnable = FALSE,
                !.triangleRasterState = [fill |-> b.polygonMode,
                                         depthBiasEnable |-> b.depthBiasEnable],
                !.depthBiasParams = b.value,
                !.pointLineRasterParams = b.value,
                !.staticStateMask =
                    @ \cup (IF b.depthBiasEnable /\ ~dynamicStateFlags(ci, "DEPTH_BIAS")
                            THEN {"DEPTH_BIAS"} ELSE {})
                      \cup (IF ~dynamicStateFlags(ci, "LINE_WIDTH")
                            THEN {"LINE_WIDTH"} ELSE {})]
      [] b.sType = "PIPELINE_RASTERIZATION_STATE_RASTERIZATION_ORDER_AMD" ->
            [st EXCEPT !.outOfOrderPrimsEnable = b.value]
      [] OTHER -> st

\* The loop from the block at position i on.
RECURSIVE RasterizationWalk(_, _, _, _)
RasterizationWalk(ci, chain, i, st) ==
    IF i > Len(chain) \/ st.result # "VK_SUCCESS"
    THEN st
    ELSE RasterizationWalk(ci, chain, i + 1,
             [RasterizationBlock(ci, st, chain[i]) EXCEPT !.visited = Append(@, i)])

BuildRasterizationState(ci) ==
    RasterizationWalk(ci, RasterizationChain(ci), 1, RasterizationStart)

multisampleEnable(ci) == ci.rasterizationSamples # 1

\* The coverage sample count of the subpass, which the parse requires to be
\* the rasterization sample count.
subpassCoverageSampleCount(ci) == ci.rasterizationSamples

\* The locations of the sample-locations block, as converted for the pipeline.
SampleLocationsOf(ci) == QuadSamplePattern(<< <<ci.value, ci.value>> >>)

\* The sample pattern left zero-initialised.
NoSamplePattern == [sampleCount |-> 0, locations |-> QuadSamplePattern(<< >>)]

\* The default pattern is baked even when custom locations are enabled.
SamplePatternAlwaysDefault(ci) ==
    IF ~multisampleEnable(ci)
    THEN NoSamplePattern
    ELSE [sampleCount |-> ci.rasterizationSamples,
          locations   |-> GetDefaultQuadSamplePattern(ci.rasterizationSamples)]

\* pImmedInfo->samplePattern after the multisample block; locations is the
\* pattern the default lookup points to (nullptr when it points to none).
SamplePattern(ci) ==
    IF ~multisampleEnable(ci)
    THEN NoSamplePattern
    ELSE IF ci.customSampleLocations /\ ~dynamicStateFlags(ci, "SAMPLE_LOCATIONS_EXT")
    THEN [sampleCount |-> ci.rasterizationSamples,
          locations   |-> SampleLocationsOf(ci)]
    ELSE IF ~ci.customSampleLocations
    THEN [sampleCount |-> ci.rasterizationSamples,
          locations   |-> GetDefaultQuadSamplePattern(ci.rasterizationSamples)]
    ELSE NoSamplePattern

\* subpassColorSampleCount after the fallback to the coverage count.
subpassColorSampleCount(ci) ==
    IF ci.colorSampleCount = 0
    THEN subpassCoverageSampleCount(ci)
    ELSE ci.colorSampleCount

\* Util::Pow2Pad: the smallest power of two that is at least x.
RECURSIVE Pow2PadFrom(_, _)
Pow2PadFrom(x, pow) == IF pow >= x THEN pow ELSE Pow2PadFrom(x, 2 * pow)

Pow2Pad(x) == Pow2PadFrom(x, 1)

\* The product of a count and a ratio <<num, den>>, rounded down.
Floor(count, ratio) == (count * ratio[1]) \div ratio[2]

\* ceil(count * ratio) as an unsigned integer, for a ratio <<num, den>>.
Ceil(count, ratio) == (count * ratio[1] + ratio[2] - 1) \div ratio[2]

\* pInfo->msaa.pixelShaderSamples
pixelShaderSamples(ci) ==
    IF ~multisampleEnable(ci)
    THEN 1
    ELSE IF ci.sampleShadingEnable /\ ci.minSampleShading[1] > 0
    THEN Pow2Pad(Ceil(subpassColorSampleCount(ci), ci.minSampleShading))
    ELSE 1

\* pipelineBuildInfo.rsState.perSampleShading
perSampleShading(ci) == pixelShaderSamples(ci) > 1

\* pInfo->pipeline.rsState.samplePatternIdx
SamplePatternIdx(ci) ==
    IF multisampleEnable(ci)
    THEN GetDefaultSamplePatternIndex(subpassCoverageSampleCount(ci)) * MaxMsaaRasterizerSamples
    ELSE 0

\* Blending counts for every target, whatever its format.
blendingEnabledAnyFormat(ci) ==
    \E i \in 1 .. Len(ci.colorTargets) : ci.colorTargets[i].blendEnable

\* blendingEnabled after the loop over the colour targets (the attachment
\* counts explored stay below Pal::MaxColorTargets): a target of undefined
\* format has its blendEnable forced off.
blendingEnabled(ci) ==
    \E i \in 1 .. Len(ci.colorTargets) :
        ci.colorTargets[i].formatDefined /\ ci.colorTargets[i].blendEnable

\* Every category with a value is baked, whatever its dynamic flag.
StaticStateMaskIgnoringFlags(ci) ==
    {s \in DynamicStates :
        CASE s \in {"VIEWPORT", "SCISSOR"} -> ci.hasViewportState
          [] s = "DEPTH_BIAS" -> ci.depthBiasEnable
          [] s = "LINE_WIDTH" -> TRUE
          [] s = "SAMPLE_LOCATIONS_EXT" -> multisampleEnable(ci)
          [] s = "BLEND_CONSTANTS" -> blendingEnabled(ci)
          [] s = "DEPTH_BOUNDS" -> ci.hasDepthStencil /\ ci.depthBoundsTestEnable
          [] OTHER -> ci.hasDepthStencil }

\* staticStateMask as BuildPatchedShaders and BuildRasterizationState set it.
StaticStateMask(ci) ==
    {s \in DynamicStates :
        CASE s = "VIEWPORT" -> ci.hasViewportState /\ ~dynamicStateFlags(ci, s)
          [] s = "SCISSOR"  -> ci.hasViewportState /\ ~dynamicStateFlags(ci, s)
          [] s \in {"DEPTH_BIAS", "LINE_WIDTH"} ->
                s \in BuildRasterizationState(ci).staticStateMask
          [] s = "SAMPLE_LOCATIONS_EXT" ->
                multisampleEnable(ci) /\
                (  (ci.customSampleLocations /\ ~dynamicStateFlags(ci, s))
                \/ ~ci.customSampleLocations )
          [] s = "BLEND_CONSTANTS" -> blendingEnabled(ci) /\ ~dynamicStateFlags(ci, s)
          [] s = "DEPTH_BOUNDS" ->
                ci.hasDepthStencil /\ ci.depthBoundsTestEnable /\ ~dynamicStateFlags(ci, s)
          [] OTHER -> ci.hasDepthStencil /\ ~dynamicStateFlags(ci, s) }

\* The parameter block that the walk has written for a token category.
RasterizationParams(st, c) ==
    CASE c = "triangleRasterState" -> st.triangleRasterState
      [] c = "depthBias"           -> st.depthBiasParams
      [] OTHER                     -> st.pointLineRasterParams

\* The parameter block of a token category in ImmedInfo.
ImmedParams(ci, c) ==
    CASE c \in {"triangleRasterState", "depthBias", "pointLineRasterState"} ->
            RasterizationParams(BuildRasterizationState(ci), c)
      [] c = "viewport" ->
            [count |-> IF ci.hasViewportState THEN ci.viewportCount ELSE 0,
             viewports |-> IF ci.hasViewportState /\ ~dynamicStateFlags(ci, "VIEWPORT")
                           THEN ci.value ELSE 0]
      [] c = "scissorRect" ->
            [count |-> IF ci.hasViewportState THEN ci.viewportCount ELSE 0,
             scissors |-> IF ci.hasViewportState /\ ~dynamicStateFlags(ci, "SCISSOR")
                          THEN ci.value ELSE 0]
      [] c = "blendConst" ->
            IF blendingEnabled(ci) /\ ~dynamicStateFlags(ci, "BLEND_CONSTANTS")
            THEN ci.value ELSE 0
      [] c = "samplePattern" ->
            SamplePattern(ci)
      [] OTHER -> ci.value

DefaultStencilOpValue == 1

\* ImmedInfo as left by the parse (staticTokens are filled by CreateStaticState).
ImmedInfo(ci) ==
    [staticStateMask |-> StaticStateMask(ci),
     params          |-> [c \in TokenCats |-> ImmedParams(ci, c)],
     staticTokens    |-> [c \in TokenCats |-> DynamicRenderStateToken],
     stencilRefMasks |->
        LET v == IF ci.hasDepthStencil THEN ci.value ELSE 0
        IN  [frontRef |-> v, frontReadMask |-> v, frontWriteMask |-> v,
             backRef  |-> v, backReadMask  |-> v, backWriteMask  |-> v,
             frontOpValue |-> DefaultStencilOpValue,
             backOpValue  |-> DefaultStencilOpValue]]

(***************************************************************************)
(* RenderStateCache: per category a map from the full parameter value to a *)
(* reference-counted entry carrying the token.  A map is a record          *)
(* [entries, nextId]; an entry is [key, token, refCount].                  *)
(***************************************************************************)
EmptyMap == [entries |-> {}, nextId |-> DynamicRenderStateToken + 1]

HasKey(map, key) == \E e \in map.entries : e.key = key

EntryOf(map, key) == CHOOSE e \in map.entries : e.key = key

\* RenderStateCache::Create<Category>(params): the token of an equal value
\* already in the map (one more reference), or a new token.
CacheCreate(map, key) ==
    IF HasKey(map, key)
    THEN LET e == EntryOf(map, key)
         IN  [map   |-> [map EXCEPT !.entries =
                            (@ \ {e}) \cup {[e EXCEPT !.refCount = @ + 1]}],
              token |-> e.token]
    ELSE [map   |-> [entries |-> map.entries \cup
                          {[key |-> key, token |-> map.nextId, refCount |-> 1]},
                     nextId  |-> map.nextId + 1],
          token |-> map.nextId]

\* RenderStateCache::Destroy<Category>(params, token): drops one reference of
\* the entry of params; the entry goes with its last reference.  The
\* DynamicRenderStateToken refers to no entry.
CacheDestroy(map, key, token) ==
    IF token = DynamicRenderStateToken \/ ~HasKey(map, key)
    THEN map
    ELSE LET e == EntryOf(map, key)
         IN  [map EXCEPT !.entries =
                 IF e.refCount = 1
                 THEN @ \ {e}
                 ELSE (@ \ {e}) \cup {[e EXCEPT !.refCount = @ - 1]}]

(***************************************************************************)
(* GraphicsPipeline::PipelineSetsState, CreateStaticState and              *)
(* DestroyStaticState.                                                     *)
(***************************************************************************)
PipelineSetsState(info, s) == s \in info.staticStateMask

\* Every category asks the cache for a token.
AcquiresTokenAlways(info, c) == c \in TokenCats

\* CreateStaticState asks the cache for a token of category c.
AcquiresToken(info, c) ==
    \/ c \in AlwaysStatic
    \/ PipelineSetsState(info, StateOf(c))

\* m_info.staticTokens after CreateStaticState, given the cache before it.
CreateStaticTokens(info, ch) ==
    [c \in TokenCats |->
        IF AcquiresToken(info, c)
        THEN CacheCreate(ch[c], info.params[c]).token
        ELSE DynamicRenderStateToken]

\* The cache after CreateStaticState.
CreateStaticState(info, ch) ==
    [c \in TokenCats |->
        IF AcquiresToken(info, c)
        THEN CacheCreate(ch[c], info.params[c]).map
        ELSE ch[c]]

\* Only the categories that are always static are handed back.
ReleasesOnlyAlwaysStatic(info, c) == c \in AlwaysStatic

\* DestroyStaticState hands category c's parameters and token back to the cache.
ReleasesToken(info, c) == c \in TokenCats

\* Every category is handed back twice.
DestroyStaticStateTwice(info, ch) ==
    [c \in TokenCats |->
        CacheDestroy(CacheDestroy(ch[c], info.params[c], info.staticTokens[c]),
                     info.params[c], info.staticTokens[c])]

\* The cache after DestroyStaticState of a pipeline with the given m_info.
DestroyStaticState(info, ch) ==
    [c \in TokenCats |->
        IF ReleasesToken(info, c)
        THEN CacheDestroy(ch[c], info.params[c], info.staticTokens[c])
        ELSE ch[c]]

(***************************************************************************)
(* BuildPatchedShaders, second half: scratch buffer, per-stage resource    *)
(* mapping and the compiler.                                               *)
(*                                                                         *)
(* The collaborators' outcomes are the inputs of a creation call, a record *)
(*   tempAlloc   the scratch allocation of the layout fails                *)
(*   mapFail     the stages whose BuildLlpcPipelineMapping fails           *)
(*   compiler    "ok", "fail" or "failAfterAlloc" (the compiler fails      *)
(*               after it called the output allocator)                     *)
(*   sysAlloc    the allocation of the pipeline's backing block fails      *)
(*   pipeFail    the devices whose CreateGraphicsPipeline fails            *)
(*   stateFail   the <<device iteration, kind>> whose state creation fails *)
(*   contract    what a sample count outside the default patterns leads    *)
(*               to: "abort" when VK_NEVER_CALLED or the read through the  *)
(*               null pattern pointer ends the process; otherwise the      *)
(*               assertion is compiled out and the read yields "zeros" or  *)
(*               the "other" content                                       *)
(***************************************************************************)
NoFault ==
    [tempAlloc |-> FALSE, mapFail |-> {}, compiler |-> "ok", sysAlloc |-> FALSE,
     pipeFail |-> {}, stateFail |-> {}, contract |-> "abort"]

\* What the read through a null pattern pointer yields when it yields any.
ReadThroughNull(f) ==
    IF f.contract = "zeros"
    THEN QuadSamplePattern(<< >>)
    ELSE QuadSamplePattern(VK_DEFAULT_SAMPLE_PATTERN_2X)

\* ImmedInfo once the default pattern has been copied from where the
\* lookup points.
ImmedInfoRead(ci, f) ==
    [ImmedInfo(ci) EXCEPT !.params["samplePattern"].locations =
        IF multisampleEnable(ci) /\ ~ci.customSampleLocations
           /\ NeverCalledReached(ci.rasterizationSamples)
        THEN ReadThroughNull(f)
        ELSE @]

\* The parse ends the process.
ParseAborts(ci, f) ==
    /\ multisampleEnable(ci)
    /\ NeverCalledReached(subpassCoverageSampleCount(ci))
    /\ f.contract = "abort"

\* result after BuildLlpcPipelineMapping of the stages from index stage on
RECURSIVE MappingLoop(_, _, _, _)
MappingLoop(ci, f, stage, result) ==
    IF stage >= ci.stageCount
    THEN result
    ELSE MappingLoop(ci, f, stage + 1,
             IF ci.hasLayout
             THEN (IF stage \in f.mapFail
                   THEN "VK_ERROR_INITIALIZATION_FAILED" ELSE "VK_SUCCESS")
             ELSE result)

\* The compiler's result is dropped.
CompilerResultIgnored(result, f) == result

\* result after the compiler's BuildGraphicsPipeline, called with result = VK_SUCCESS
CompilerResult(result, f) ==
    IF f.compiler # "ok" THEN "VK_ERROR_INITIALIZATION_FAILED" ELSE result

\* The scratch buffer is freed whatever the result.
FreesTempBufferAlways(pTempBuffer, result) == pTempBuffer

\* BuildPatchedShaders frees the scratch buffer it allocated (pTempBuffer
\* non-null) when it fails; on success the buffer goes to the caller.
FreesTempBuffer(pTempBuffer, result) == pTempBuffer /\ result # "VK_SUCCESS"

BuildPatchedShaders(ci, f) ==
    LET wantsTemp  == ci.hasLayout /\ ci.tempBufferSize > 0
        pTempBuffer == wantsTemp /\ ~f.tempAlloc          \* non-null
        r0 == IF wantsTemp /\ f.tempAlloc
              THEN "VK_ERROR_OUT_OF_HOST_MEMORY" ELSE "VK_SUCCESS"
        \* the parse (lines 270-754) cannot fail
        r1 == IF r0 = "VK_SUCCESS" THEN MappingLoop(ci, f, 0, r0) ELSE r0
        mapped == IF r0 = "VK_SUCCESS" /\ ci.hasLayout THEN ci.stageCount ELSE 0
        built  == r1 = "VK_SUCCESS"
        r2 == IF built THEN CompilerResult(r1, f) ELSE r1
    IN  [result          |-> r2,
         aborted         |-> r0 = "VK_SUCCESS" /\ ParseAborts(ci, f),
         info            |-> ImmedInfoRead(ci, f),
         samplePatternIdx |-> SamplePatternIdx(ci),
         pixelShaderSamples |-> pixelShaderSamples(ci),
         rasterization   |-> BuildRasterizationState(ci),
         perSampleShading |-> r0 = "VK_SUCCESS" /\ perSampleShading(ci),
         mappingCalls    |-> mapped,
         buildCalls      |-> IF built THEN 1 ELSE 0,
         binaryOut       |-> built /\ r2 = "VK_SUCCESS",
         shaderBuffer    |-> built /\ f.compiler # "fail",
         tempBufferAllocs |-> IF pTempBuffer THEN 1 ELSE 0,
         tempBufferOut   |-> pTempBuffer /\ r2 = "VK_SUCCESS",
         tempBufferFrees |-> IF FreesTempBuffer(pTempBuffer, r2) THEN 1 ELSE 0]

(***************************************************************************)
(* GraphicsPipeline::Create.                                               *)
(***************************************************************************)
HeaderSize == 16                        \* sizeof(GraphicsPipeline)
GetGraphicsPipelineSize(dev) == 8 * (dev + 1)

\* palSize: the sizes of the devices from dev on, summed
RECURSIVE PalSize(_)
PalSize(dev) ==
    IF dev >= numPalDevices THEN 0
    ELSE GetGraphicsPipelineSize(dev) + PalSize(dev + 1)

\* The offset is left where it was.
PalOffsetNotAdvanced(palOffset, dev) == palOffset

\* palOffset after the construction attempt on the device dev.
NextPalOffset(palOffset, dev) == palOffset + GetGraphicsPipelineSize(dev)

PalPipelineHash(ci, dev) == ci.binary   \* GetInfo().pipelineHash

\* result after a state-object creation that returned palResult
ResultAfterStateCreate(result, failed) == result

\* One iteration of the per-device loop (lines 1009-1092).  st holds the
\* locals: result, the constructed pPalPipeline entries, the construction
\* attempts with their offsets, palOffset, and per kind of state object the
\* number of creations and whether the handle array is set.
DeviceIteration(f, dev, st) ==
    LET try  == st.result = "VK_SUCCESS"
        ok   == try /\ dev \notin f.pipeFail
        s1   == IF try
                THEN [st EXCEPT
                        !.attempts    = Append(@, [dev |-> dev, offset |-> st.palOffset]),
                        !.constructed = IF ok THEN @ \cup {dev} ELSE @,
                        !.result      = IF ok THEN @ ELSE "VK_ERROR_OUT_OF_DEVICE_MEMORY",
                        !.palOffset   = NextPalOffset(@, dev)]
                ELSE st
        StateStep(s, kind) ==
            IF s.result = "VK_SUCCESS"
            THEN LET failed == <<dev, kind>> \in f.stateFail
                 IN  [s EXCEPT
                        !.stateCalls[kind]   = @ + 1,
                        !.stateCreates[kind] = IF failed THEN @ ELSE @ + 1,
                        !.stateSet[kind]     = IF failed THEN @ ELSE TRUE,
                        !.result = ResultAfterStateCreate(@, failed)]
            ELSE s
    IN  StateStep(StateStep(StateStep(s1, "msaa"), "colorBlend"), "depthStencil")

RECURSIVE DeviceLoop(_, _, _)
DeviceLoop(f, dev, st) ==
    IF dev >= numPalDevices THEN st
    ELSE DeviceLoop(f, dev + 1, DeviceIteration(f, dev, st))

\* The rollback destroys every entry of pPalPipeline, null or not.
RollbackDestroysAll(constructed) == Devices

\* The devices whose native pipeline the rollback destroys.
RollbackDestroys(constructed) == {dev \in Devices : dev \in constructed}

\* Create from the return of BuildPatchedShaders (bps) and the locals
\* after the per-device loop (st) to its own return, as a record of what
\* the whole call did and returned.
CreateOutcome(f, bps, st) ==
    LET sized    == bps.result = "VK_SUCCESS"
        palSize  == IF sized THEN PalSize(0) ELSE 0
        sysMem   == sized /\ ~f.sysAlloc                    \* pSystemMem non-null
        success  == st.result = "VK_SUCCESS"
    IN  [result           |-> st.result,
         success          |-> success,
         aborted          |-> bps.aborted,
         buildResult      |-> bps.result,
         info             |-> bps.info,
         samplePatternIdx |-> bps.samplePatternIdx,
         pixelShaderSamples |-> bps.pixelShaderSamples,
         rasterization    |-> bps.rasterization,
         perSampleShading |-> bps.perSampleShading,
         mappingCalls     |-> bps.mappingCalls,
         buildCalls       |-> bps.buildCalls,
         binaryOut        |-> bps.binaryOut,
         shaderBufferAllocs |-> IF bps.shaderBuffer THEN 1 ELSE 0,
         shaderBufferFrees  |-> IF bps.shaderBuffer THEN 1 ELSE 0,
         tempBufferAllocs |-> bps.tempBufferAllocs,
         tempBufferFrees  |-> bps.tempBufferFrees +
                              (IF bps.tempBufferOut THEN 1 ELSE 0),
         blockSize        |-> IF sized THEN HeaderSize + palSize ELSE 0,
         sysMemAllocs     |-> IF sysMem THEN 1 ELSE 0,
         sysMemFrees      |-> IF sysMem /\ ~success THEN 1 ELSE 0,
         attempts         |-> st.attempts,
         constructed      |-> st.constructed,
         destroyed        |-> IF success THEN {} ELSE RollbackDestroys(st.constructed),
         stateCalls       |-> st.stateCalls,
         stateCreates     |-> st.stateCreates,
         stateSet         |-> st.stateSet,
         stateDestroys    |-> [k \in StateKinds |->
                                 IF ~success /\ st.stateSet[k] THEN 1 ELSE 0]]

\* Create from the return of BuildPatchedShaders on: the backing block is
\* allocated and the per-device loop runs.
CreateAfterBuild(f, bps) ==
    CreateOutcome(f, bps,
        DeviceLoop(f, 0,
            [result       |-> IF bps.result = "VK_SUCCESS" /\ f.sysAlloc
                              THEN "VK_ERROR_OUT_OF_HOST_MEMORY" ELSE bps.result,
             attempts     |-> << >>,
             constructed  |-> {},
             palOffset    |-> HeaderSize,
             stateCalls   |-> [k \in StateKinds |-> 0],
             stateCreates |-> [k \in StateKinds |-> 0],
             stateSet     |-> [k \in StateKinds |-> FALSE]]))

\* The whole call.
CreateCall(ci, f) == CreateAfterBuild(f, BuildPatchedShaders(ci, f))

(***************************************************************************)
(* The state after construction: a device group, no pipeline, an empty     *)
(* cache, and a command buffer with a fresh render state.                  *)
(***************************************************************************)
DeviceMasks == (SUBSET Devices) \ {{}}

FreshRenderState ==
    [staticTokens      |-> [c \in TokenCats |-> DynamicRenderStateToken],
     viewportCount     |-> 0,
     scissorCount      |-> 0,
     pGraphicsPipeline |-> VK_NULL_HANDLE,
     binds             |-> 0]

FreshStencil ==
    [frontRef |-> 0, frontReadMask |-> 0, frontWriteMask |-> 0,
     backRef  |-> 0, backReadMask  |-> 0, backWriteMask  |-> 0,
     frontOpValue |-> 0, backOpValue |-> 0]

NoOp == [op |-> "None"]

\* Names of the commands that are redundancy-checked by token.
TokenWrites(emitted) == UNION {emitted[dev] \cap TokenCats : dev \in DOMAIN emitted}

Threads == 1 .. MaxThreads

\* No call on the pipeline-cache counter was made by the thread yet.
NoCall == [pc |-> "idle", op |-> "None", value |-> 0, expectedEntries |-> 0]

\* excessivePipelineCacheCountThreshold of the runtime settings, and whether
\* the build is an ICD_X86_BUILD.
Settings ==
    [excessivePipelineCacheCountThreshold : 0 .. MaxThreshold, ICD_X86_BUILD : BOOLEAN]

DefaultSettings ==
    [excessivePipelineCacheCountThreshold |-> MaxThreshold, ICD_X86_BUILD |-> FALSE]

\* Device::Device: m_pipelineCacheCount(0)
InitCounter ==
    /\ m_pipelineCacheCount = 0
    /\ calls = [t \in Threads |-> NoCall]
    /\ completed = [gets |-> 0, decs |-> 0]

InitGraphics ==
    /\ numPalDevices \in 1 .. MaxDevices
    /\ pipelines = [h \in Handles |-> NoPipeline]
    /\ cache = [c \in TokenCats |-> EmptyMap]
    /\ renderState = FreshRenderState
    /\ stencil = FreshStencil
    /\ last = NoOp

Init ==
    /\ InitGraphics
    /\ settings = DefaultSettings
    /\ InitCounter

(***************************************************************************)
(* vkCreateGraphicsPipelines with one create-info: GraphicsPipeline::Create *)
(* and, on success, the constructor with CreateStaticState.                *)
(***************************************************************************)
FreeHandles == {h \in Handles : ~pipelines[h].live}

\* What the call leaves behind: the pipeline object and its tokens when it
\* succeeded, and the record of the call.
CreateReturn(ci, f, call, info) ==
    /\ LET h == CHOOSE x \in FreeHandles : \A y \in FreeHandles : x <= y
       IN  IF call.aborted
           THEN /\ last' = [op |-> "Abort", ci |-> ci, fault |-> f]
                /\ UNCHANGED <<pipelines, cache>>
           ELSE
           /\ pipelines' =
                 IF call.success
                 THEN [pipelines EXCEPT ![h] =
                          [live         |-> TRUE,
                           info         |-> info,
                           palHash      |-> [dev \in Devices |-> PalPipelineHash(ci, dev)],
                           stateSet     |-> call.stateSet,
                           stateCreates |-> call.stateCreates]]
                 ELSE pipelines
           /\ cache' = IF call.success THEN CreateStaticState(call.info, cache) ELSE cache
           /\ \A c \in TokenCats : cache'[c].nextId <= MaxToken + 1
           /\ last' = [op         |-> "Create",
                       ci         |-> ci,
                       fault      |-> f,
                       stageCount |-> ci.stageCount,
                       hasLayout  |-> ci.hasLayout,
                       call       |-> [call EXCEPT !.info = info.staticStateMask],
                       immed      |-> info.params,
                       handle     |-> IF call.success THEN h ELSE VK_NULL_HANDLE]
    /\ UNCHANGED <<counterVars, numPalDevices, renderState, stencil>>

\* The constructor's CreateStaticState fills the tokens of the immediate
\* state.
CreateConstructed(ci, f, call) ==
    CreateReturn(ci, f, call,
        [call.info EXCEPT !.staticTokens = CreateStaticTokens(call.info, cache)])

Create(ci, f) ==
    /\ last.op = "None"
    /\ FreeHandles # {}
    /\ CreateConstructed(ci, f, CreateCall(ci, f))

(***************************************************************************)
(* vkDestroyPipeline: GraphicsPipeline::Destroy.  A pipeline that is       *)
(* recorded as bound in the command buffer is not destroyed.               *)
(***************************************************************************)
Destroy(h) ==
    /\ last.op = "None"
    /\ pipelines[h].live
    /\ renderState.pGraphicsPipeline # h
    /\ pipelines' = [pipelines EXCEPT ![h] = NoPipeline]
    /\ cache' = DestroyStaticState(pipelines[h].info, cache)
    /\ last' = [op            |-> "Destroy",
                handle        |-> h,
                info          |-> pipelines[h].info,
                stateCreates  |-> pipelines[h].stateCreates,
                stateDestroys |-> [k \in StateKinds |->
                                     IF pipelines[h].stateSet[k] THEN 1 ELSE 0]]
    /\ UNCHANGED <<counterVars, numPalDevices, renderState, stencil>>

(***************************************************************************)
(* Device::CreateGraphicsPipelines with count create-infos: the loop over  *)
(* the entries.  entries[i] is the i-th create-info together with the     *)
(* outcomes of the collaborators during its creation.                      *)
(***************************************************************************)
\* The first error is kept.
FinalResultFirstError(finalResult, result) ==
    IF finalResult = "VK_SUCCESS" THEN result ELSE finalResult

\* finalResult after an entry failed with result.
FinalResultAfter(finalResult, result) == result

\* One iteration of the loop: call is what GraphicsPipeline::Create did for
\* the create-info ci, st the pipelines, the cache, the output array and
\* finalResult so far.
CreateIteration(st, ci, call) ==
    LET free == {h \in Handles : ~st.pipelines[h].live}
    IN  IF call.aborted
        THEN [st EXCEPT !.aborted = TRUE]
        ELSE IF call.success /\ free = {}
        THEN [st EXCEPT !.exhausted = TRUE]
        ELSE IF call.success
        THEN LET h == CHOOSE x \in free : \A y \in free : x <= y
             IN  [st EXCEPT
                    !.pipelines[h] =
                        [live         |-> TRUE,
                         info         |-> [call.info EXCEPT !.staticTokens =
                                              CreateStaticTokens(call.info, st.cache)],
                         palHash      |-> [dev \in Devices |-> PalPipelineHash(ci, dev)],
                         stateSet     |-> call.stateSet,
                         stateCreates |-> call.stateCreates],
                    !.cache      = CreateStaticState(call.info, st.cache),
                    !.results    = Append(@, call.result),
                    !.pPipelines = Append(@, h)]
        ELSE [st EXCEPT
                !.results     = Append(@, call.result),
                !.pPipelines  = Append(@, VK_NULL_HANDLE),
                !.finalResult = FinalResultAfter(@, call.result)]

RECURSIVE CreateLoop(_, _, _)
CreateLoop(entries, i, st) ==
    IF i > Len(entries) \/ st.aborted \/ st.exhausted THEN st
    ELSE CreateLoop(entries, i + 1,
            CreateIteration(st, entries[i][1], CreateCall(entries[i][1], entries[i][2])))

\* What the whole call leaves behind.
CreateGraphicsPipelinesReturn(entries, st) ==
    /\ ~st.exhausted
    /\ IF st.aborted
       THEN /\ last' = [op |-> "Abort", ci |-> entries[1][1], fault |-> entries[1][2]]
            /\ UNCHANGED <<pipelines, cache>>
       ELSE /\ pipelines' = st.pipelines
            /\ cache' = st.cache
            /\ \A c \in TokenCats : cache'[c].nextId <= MaxToken + 1
            /\ last' = [op          |-> "CreateGraphicsPipelines",
                        count       |-> Len(entries),
                        entries     |-> entries,
                        results     |-> st.results,
                        pPipelines  |-> st.pPipelines,
                        finalResult |-> st.finalResult]
    /\ UNCHANGED <<counterVars, numPalDevices, renderState, stencil>>

CreateGraphicsPipelines(entries) ==
    /\ last.op = "None"
    /\ CreateGraphicsPipelinesReturn(entries,
          CreateLoop(entries, 1,
             [pipelines   |-> pipelines,
              cache       |-> cache,
              results     |-> << >>,
              pPipelines  |-> << >>,
              finalResult |-> "VK_SUCCESS",
              aborted     |-> FALSE,
              exhausted   |-> FALSE]))

(***************************************************************************)
(* GraphicsPipeline::BindToCmdBuffer.                                      *)
(*                                                                         *)
(* The commands a bind emits are recorded per device as a set of names: a  *)
(* token category for the state-set command of that category written with  *)
(* the pipeline's value, "CmdBindPipeline", and "CmdSetViewports" /         *)
(* "CmdSetScissorRects" for the re-send of the render state's own values.   *)
(***************************************************************************)
\* CmdBuffer::IsStaticStateDifferent
IsStaticStateDifferent(oldToken, newToken) == oldToken # newToken

\* Every category is programmed at bind time.
BindChecksAll(info, c) == c \in TokenCats

\* The pipeline programs category c at bind time (it is not left dynamic).
BindChecks(info, c) ==
    \/ c \in AlwaysStatic
    \/ PipelineSetsState(info, StateOf(c))

\* The redundancy check compares against the tokens as updated so far.
TokensReadCurrent(oldTokens, curTokens) == curTokens

\* The token the redundancy check of one device iteration compares against:
\* the by-value copy taken before the loop.
TokensRead(oldTokens, curTokens) == oldTokens

\* The state-set command is written without the redundancy check.
WritesStateAlways(info, tokensRead, c) == BindChecks(info, c)

\* The state-set command of category c is written.
WritesState(info, tokensRead, c) ==
    /\ BindChecks(info, c)
    /\ IsStaticStateDifferent(tokensRead[c], info.staticTokens[c])

\* SetAllViewports / SetAllScissors are called before the device loop.
BeforeLoopCats == {"viewport", "scissorRect"}
InLoopCats == TokenCats \ BeforeLoopCats

\* The bound token of a category after its redundancy-checked write.
TokenNotRecorded(written, newToken, curToken) == curToken

TokenAfterWrite(written, newToken, curToken) ==
    IF written THEN newToken ELSE curToken

\* The bound pipeline is compared by address.
BindsPipelineByPointer(rs, h, dev) == rs.pGraphicsPipeline # h

\* CmdBindPipeline of pipeline h is emitted on device dev.
BindsPipeline(rs, h, dev) ==
    IF rs.pGraphicsPipeline # VK_NULL_HANDLE
    THEN pipelines[rs.pGraphicsPipeline].palHash[dev] # pipelines[h].palHash[dev]
    ELSE TRUE

\* One iteration of the device loop (lines 1376-1473): the commands emitted
\* on dev and the bound tokens after it.
BindDevice(rs, h, dev, oldTokens, curTokens, viewportCountDirty, scissorCountDirty) ==
    LET info    == pipelines[h].info
        read    == TokensRead(oldTokens, curTokens)
        written == {c \in InLoopCats : WritesState(info, read, c)}
    IN  [emitted |->
            written
            \cup (IF BindsPipeline(rs, h, dev) THEN {"CmdBindPipeline"} ELSE {})
            \cup (IF viewportCountDirty THEN {"CmdSetViewports"} ELSE {})
            \cup (IF scissorCountDirty THEN {"CmdSetScissorRects"} ELSE {}),
         tokens |->
            [c \in TokenCats |->
                TokenAfterWrite(c \in written, info.staticTokens[c], curTokens[c])]]

\* The device loop over the devices of the mask from dev on, in ascending order.
RECURSIVE BindLoop(_, _, _, _, _, _, _, _, _)
BindLoop(rs, h, mask, dev, oldTokens, curTokens, vpDirty, scDirty, emitted) ==
    IF dev >= numPalDevices
    THEN [emitted |-> emitted, tokens |-> curTokens]
    ELSE IF dev \notin mask
    THEN BindLoop(rs, h, mask, dev + 1, oldTokens, curTokens, vpDirty, scDirty, emitted)
    ELSE LET it == BindDevice(rs, h, dev, oldTokens, curTokens, vpDirty, scDirty)
         IN  BindLoop(rs, h, mask, dev + 1, oldTokens, it.tokens, vpDirty, scDirty,
                      [emitted EXCEPT ![dev] = @ \cup it.emitted])

\* The counts are never compared.
CountNeverDirty(cachedCount, pipelineCount) == FALSE

\* The viewport (scissor) count is dirty when the bind starts.
CountDirty(cachedCount, pipelineCount) == cachedCount # pipelineCount

\* Every value of the pipeline is pushed to the combiner.
BindStencilAll(info, comb) == info.stencilRefMasks

\* The stencil combiner after the bind.
BindStencil(info, comb) ==
    LET m == info.stencilRefMasks
        c0 == [comb EXCEPT !.frontOpValue = m.frontOpValue,
                           !.backOpValue  = m.backOpValue]
        c1 == IF PipelineSetsState(info, "STENCIL_COMPARE_MASK")
              THEN [c0 EXCEPT !.frontReadMask = m.frontReadMask,
                              !.backReadMask  = m.backReadMask]
              ELSE c0
        c2 == IF PipelineSetsState(info, "STENCIL_WRITE_MASK")
              THEN [c1 EXCEPT !.frontWriteMask = m.frontWriteMask,
                              !.backWriteMask  = m.backWriteMask]
              ELSE c1
    IN  IF PipelineSetsState(info, "STENCIL_REFERENCE")
        THEN [c2 EXCEPT !.frontRef = m.frontRef, !.backRef = m.backRef]
        ELSE c2

stencilMasks(info) ==
    \/ PipelineSetsState(info, "STENCIL_COMPARE_MASK")
    \/ PipelineSetsState(info, "STENCIL_WRITE_MASK")
    \/ PipelineSetsState(info, "STENCIL_REFERENCE")

\* The whole call of pipeline h on render state rs: what it emitted and the
\* state after it.
BindCall(rs, h, mask) ==
    LET info      == pipelines[h].info
        oldTokens == rs.staticTokens
        vpDirty0  == CountDirty(rs.viewportCount, info.params["viewport"].count)
        scDirty0  == CountDirty(rs.scissorCount, info.params["scissorRect"].count)
        setAll    == {c \in BeforeLoopCats : WritesState(info, oldTokens, c)}
        \* SetAllViewports / SetAllScissors: the command on every device of
        \* the mask, and the token recorded in the render state
        tokens0   == [c \in TokenCats |->
                        IF c \in setAll THEN info.staticTokens[c] ELSE oldTokens[c]]
        emitted0  == [dev \in mask |-> setAll]
        vpDirty   == vpDirty0 /\ "viewport" \notin setAll
        scDirty   == scDirty0 /\ "scissorRect" \notin setAll
        loop      == BindLoop(rs, h, mask, 0, oldTokens, tokens0, vpDirty, scDirty, emitted0)
    IN  [emitted       |-> loop.emitted,
         tokens        |-> loop.tokens,
         viewportCount |-> info.params["viewport"].count,
         scissorCount  |-> info.params["scissorRect"].count,
         vpDirty       |-> vpDirty0,
         scDirty       |-> scDirty0,
         stencilCmd    |-> stencilMasks(info)]

\* The binds recorded since the render state was fresh, counted up to 2.
CountBind(n) == IF n < 2 THEN n + 1 ELSE n

\* vkCmdBindPipeline on a command buffer whose device mask is mask:
\* BindToCmdBuffer, after which the command buffer records the pipeline as
\* the bound graphics pipeline.
BindToCmdBuffer(h, mask) ==
    /\ last.op = "None"
    /\ pipelines[h].live
    /\ LET pipe == pipelines[h]
           call == BindCall(renderState, h, mask)
       IN  /\ renderState' = [renderState EXCEPT
                                !.staticTokens      = call.tokens,
                                !.viewportCount     = call.viewportCount,
                                !.scissorCount      = call.scissorCount,
                                !.pGraphicsPipeline = h,
                                !.binds             = CountBind(@)]
           /\ stencil' = BindStencil(pipe.info, stencil)
           /\ last' = [op          |-> "Bind",
                       handle      |-> h,
                       mask        |-> mask,
                       old         |-> renderState,
                       oldStencil  |-> stencil,
                       oldHash     |-> IF renderState.pGraphicsPipeline = VK_NULL_HANDLE
                                       THEN [dev \in Devices |-> 0]
                                       ELSE pipelines[renderState.pGraphicsPipeline].palHash,
                       emitted     |-> call.emitted,
                       stencilCmd  |-> call.stencilCmd]
    /\ UNCHANGED <<counterVars, numPalDevices, pipelines, cache>>

\* vkBeginCommandBuffer: the render state and the combiner start afresh.
ResetState ==
    /\ last.op = "None"
    /\ renderState.binds > 0
    /\ renderState' = FreshRenderState
    /\ stencil' = FreshStencil
    /\ UNCHANGED <<counterVars, numPalDevices, pipelines, cache, last>>

(***************************************************************************)
(* Device::GetDefaultQuadSamplePattern and GetDefaultSamplePatternIndex     *)
(* called for a sample count.  The record keeps the lookups made in a row.  *)
(***************************************************************************)
GetDefaultPattern(sampleCount, contract) ==
    /\ last.op \in {"None", "Lookup"}
    /\ LET before == IF last.op = "Lookup" THEN last.lookups ELSE << >>
       IN  /\ Len(before) < MaxLookups
           /\ last' =
                 IF NeverCalledReached(sampleCount) /\ contract = "abort"
                 THEN [op |-> "Abort"]
                 ELSE [op      |-> "Lookup",
                       lookups |-> Append(before,
                                     [sampleCount |-> sampleCount,
                                      pattern |-> GetDefaultQuadSamplePattern(sampleCount),
                                      index   |-> GetDefaultSamplePatternIndex(sampleCount)])]
    /\ UNCHANGED <<counterVars, numPalDevices, pipelines, cache, renderState, stencil>>

\* The call returns to the application, which has seen its record.
Return ==
    /\ last.op \notin {"None", "Abort"}
    /\ last' = NoOp
    /\ UNCHANGED <<counterVars, numPalDevices, pipelines, cache, renderState, stencil>>

(***************************************************************************)
(* The pipeline-cache counter of the device (vk_device.cpp).  A pipeline   *)
(* cache calls GetPipelineCacheExpectedEntryCount when it is created and   *)
(* DecreasePipelineCacheCount when it is destroyed, on any thread.  A call *)
(* is its atomic update of the counter followed by its return.             *)
(***************************************************************************)
\* Util::AtomicIncrement / Util::AtomicDecrement: the value after the update.
\* The counter is a uint32_t; it is decremented only for a pipeline cache
\* that incremented it and counts at most MaxCalls caches, so that it
\* never wraps.
AtomicIncrement(v) == v + 1
AtomicDecrement(v) == v - 1

\* The counter is read again for the comparison.
ValueReadAgain(incremented, current) == current

\* The value compared with the threshold: the one AtomicIncrement returned.
ValueCompared(incremented, current) == incremented

\* expectedEntries for the counter value v
ExpectedEntries(v) ==
    IF v > settings.excessivePipelineCacheCountThreshold \div numPalDevices
    THEN IF settings.ICD_X86_BUILD THEN 1024 ELSE 4096
    ELSE 0

Incremented == {t \in Threads : calls[t].pc = "incremented"}
Decremented == {t \in Threads : calls[t].pc = "decremented"}

\* Pipeline caches that were created and whose destruction has not begun.
LiveCaches == completed.gets - completed.decs - Cardinality(Decremented)

\* GetPipelineCacheExpectedEntryCount up to the return of AtomicIncrement
GetPipelineCacheExpectedEntryCount(t) ==
    /\ calls[t].pc = "idle"
    /\ completed.gets + Cardinality(Incremented) < MaxCalls
    /\ m_pipelineCacheCount' = AtomicIncrement(m_pipelineCacheCount)
    /\ calls' = [calls EXCEPT ![t] =
                    [pc |-> "incremented", op |-> "Get",
                     value |-> m_pipelineCacheCount', expectedEntries |-> 0]]
    /\ UNCHANGED <<graphicsVars, settings, completed>>

\* ... and from the comparison to its return
GetPipelineCacheExpectedEntryCountReturn(t) ==
    /\ calls[t].pc = "incremented"
    /\ calls' = [calls EXCEPT ![t] =
                    [@ EXCEPT !.pc = "idle",
                              !.expectedEntries =
                                  ExpectedEntries(ValueCompared(calls[t].value,
                                                                m_pipelineCacheCount))]]
    /\ completed' = [completed EXCEPT !.gets = @ + 1]
    /\ UNCHANGED <<graphicsVars, settings, m_pipelineCacheCount>>

\* DecreasePipelineCacheCount of a pipeline cache being destroyed
DecreasePipelineCacheCount(t) ==
    /\ calls[t].pc = "idle"
    /\ LiveCaches > 0
    /\ m_pipelineCacheCount' = AtomicDecrement(m_pipelineCacheCount)
    /\ calls' = [calls EXCEPT ![t] =
                    [pc |-> "decremented", op |-> "Decrease",
                     value |-> m_pipelineCacheCount', expectedEntries |-> 0]]
    /\ UNCHANGED <<graphicsVars, settings, completed>>

DecreasePipelineCacheCountReturn(t) ==
    /\ calls[t].pc = "decremented"
    /\ calls' = [calls EXCEPT ![t] = [@ EXCEPT !.pc = "idle"]]
    /\ completed' = [completed EXCEPT !.decs = @ + 1]
    /\ UNCHANGED <<graphicsVars, settings, m_pipelineCacheCount>>

(***************************************************************************)
(* Device::Create from its call of Device::Initialize on, and              *)
(* Device::Initialize (vk_device.cpp).  A fault names the steps that fail  *)
(* when they are executed and carries the two settings the steps depend on.*)
(***************************************************************************)
\* The steps of Initialize in program order.
InitializeSteps ==
    <<"m_internalMemMgr.Init", "m_renderStateCache.Init",
      "GetCmdAllocatorSize", "AllocMem(CmdAllocator)", "CreateCmdAllocator",
      "AcquireAllocator", "GetProperties",
      "CreateLlpcInternalPipelines", "CreateBltMsaaStates",
      "SetSamplePatternPalette", "AllocMem(SqttMgr)",
      "m_memoryMutex.Init", "m_timerQueueMutex.Init">>

SharedCmdAllocatorSteps ==
    {"GetCmdAllocatorSize", "AllocMem(CmdAllocator)", "CreateCmdAllocator"}

\* The result a failing step leaves in result: a failed allocation is
\* VK_ERROR_OUT_OF_HOST_MEMORY, the error of any other step is named after
\* the step.
ErrorOf(step) ==
    IF step \in {"AllocMem(CmdAllocator)", "AllocMem(SqttMgr)"}
    THEN "VK_ERROR_OUT_OF_HOST_MEMORY"
    ELSE step

\* The step is under 'if (result == VK_SUCCESS)'.
GuardedByResult(step, result) ==
    step \notin {"m_internalMemMgr.Init", "GetProperties"} => result = "VK_SUCCESS"

\* The step is executed, given result so far.
Executes(f, step, result) ==
    /\ GuardedByResult(step, result)
    /\ step \in SharedCmdAllocatorSteps => f.useSharedCmdAllocator
    /\ step = "AllocMem(SqttMgr)" => f.IsTracingSupportEnabled

RECURSIVE InitializeFrom(_, _, _)
InitializeFrom(f, i, st) ==
    IF i > Len(InitializeSteps) THEN st
    ELSE InitializeFrom(f, i + 1,
            IF Executes(f, InitializeSteps[i], st.result)
            THEN [result   |-> IF InitializeSteps[i] \in f.fail
                               THEN ErrorOf(InitializeSteps[i]) ELSE "VK_SUCCESS",
                  executed |-> st.executed \cup {InitializeSteps[i]},
                  failed   |-> st.failed \cup (f.fail \cap {InitializeSteps[i]})]
            ELSE st)

\* Device::Initialize: its result, the steps it executed and those of them
\* that failed.
Initialize(f) ==
    InitializeFrom(f, 1, [result |-> "VK_SUCCESS", executed |-> {}, failed |-> {}])

\* Device::Create once the queues are constructed: Initialize, and Destroy
\* of the device when it failed.
DeviceCreateReturn(f, init) ==
    /\ last' = [op        |-> "DeviceCreate",
                fault     |-> f,
                executed  |-> init.executed,
                failed    |-> init.failed,
                initialize |-> init.result,
                destroyed |-> init.result # "VK_SUCCESS",
                ppDevice  |-> init.result = "VK_SUCCESS",
                result    |-> init.result]
    /\ UNCHANGED <<counterVars, numPalDevices, pipelines, cache, renderState, stencil>>

DeviceCreate(f) ==
    /\ last.op = "None"
    /\ DeviceCreateReturn(f, Initialize(f))

(***************************************************************************)
(* Device::CreateLlpcInternalComputePipeline.                              *)
(***************************************************************************)
\* result after CreateComputePipeline on one device
ResultAfterCreateComputePipeline(result, failed) ==
    IF failed THEN "VK_ERROR_OUT_OF_DEVICE_MEMORY" ELSE "VK_SUCCESS"

\* The loop over the devices from dev on: result and the entries of
\* pPipeline that are set.
RECURSIVE ComputePipelineLoop(_, _, _)
ComputePipelineLoop(f, dev, st) ==
    IF dev >= numPalDevices THEN st
    ELSE ComputePipelineLoop(f, dev + 1,
            [result    |-> ResultAfterCreateComputePipeline(st.result, dev \in f.pipeFail),
             pPipeline |-> IF dev \in f.pipeFail THEN st.pPipeline
                           ELSE st.pPipeline \cup {dev}])

\* The call from the allocation of pPipelineMem to its return; built is
\* result after the two builds.
InternalPipelineOutcome(f, built, st) ==
    [buildResult   |-> built,
     result        |-> st.result,
     pPipelineMem  |-> built = "VK_SUCCESS" /\ ~f.allocFail,
     pPipeline     |-> st.pPipeline,
     destroyed     |-> IF st.result = "VK_SUCCESS" THEN {} ELSE st.pPipeline,
     memFreed      |-> st.result # "VK_SUCCESS",
     outputWritten |-> st.result = "VK_SUCCESS"]

InternalPipelineAfterBuild(f, built) ==
    InternalPipelineOutcome(f, built,
        IF built # "VK_SUCCESS"
        THEN [result |-> built, pPipeline |-> {}]
        ELSE IF f.allocFail
        THEN [result |-> "VK_ERROR_OUT_OF_HOST_MEMORY", pPipeline |-> {}]
        ELSE ComputePipelineLoop(f, 0, [result |-> built, pPipeline |-> {}]))

\* result after BuildShaderModule and BuildComputePipeline
BuildInternalPipeline(f) ==
    IF f.shaderModule \notin {"Success", "Delayed"} THEN "VK_ERROR_INITIALIZATION_FAILED"
    ELSE IF f.computePipeline # "Success" THEN "VK_ERROR_INITIALIZATION_FAILED"
    ELSE "VK_SUCCESS"

CreateLlpcInternalComputePipeline(f) ==
    /\ last.op = "None"
    /\ last' = [op      |-> "CreateLlpcInternalComputePipeline",
                fault   |-> f,
                outcome |-> InternalPipelineAfterBuild(f, BuildInternalPipeline(f))]
    /\ UNCHANGED <<counterVars, numPalDevices, pipelines, cache, renderState, stencil>>

(***************************************************************************)
(* PassDeadFuncRemove::runOnModule (llpcPassDeadFuncRemove.cpp).  A module *)
(* is its functions 1 .. n in list order, the set of them that have an    *)
(* entry-point calling convention, and per function the function it uses  *)
(* (0 for none; a function may use itself).                               *)
(***************************************************************************)
\* pCurrFunc->use_empty(): no function still in the module uses func.
use_empty(m, alive, func) == \A g \in alive : m.uses[g] # func

\* The body of the for loop removes func.
Removes(m, alive, func) ==
    /\ func \notin m.entries
    /\ use_empty(m, alive, func)

\* One sweep over the list of functions from func on; a function erased
\* by an earlier sweep is no longer in the list.
RECURSIVE Sweep(_, _, _)
Sweep(m, func, st) ==
    IF func > m.n THEN st
    ELSE Sweep(m, func + 1,
            IF func \in st.alive /\ Removes(m, st.alive, func)
            THEN [alive    |-> st.alive \ {func},
                  removals |-> Append(st.removals, func),
                  changed  |-> TRUE]
            ELSE st)

\* The loop runs until a sweep changes nothing.
ContinuesWhileChanged(changed, iterCount) == changed

\* while (changed && (iterCount < MaxIterCountOfDetection))
Continues(changed, iterCount) == changed /\ iterCount < MaxIterCountOfDetection

\* The do-while loop after iterCount sweeps; swept is the sweep just made.
RECURSIVE SweepLoop(_, _, _)
SweepLoop(m, iterCount, swept) ==
    IF Continues(swept.changed, iterCount)
    THEN SweepLoop(m, iterCount + 1,
                   Sweep(m, 1, [swept EXCEPT !.changed = FALSE]))
    ELSE [alive     |-> swept.alive,
          removals  |-> swept.removals,
          changed   |-> swept.changed,
          iterCount |-> iterCount]

runOnModule(m) ==
    /\ last.op = "None"
    /\ last' = [op     |-> "runOnModule",
                module |-> m,
                pass   |-> SweepLoop(m, 1,
                              Sweep(m, 1, [alive    |-> 1 .. m.n,
                                           removals |-> << >>,
                                           changed  |-> FALSE]))]
    /\ UNCHANGED <<counterVars, numPalDevices, pipelines, cache, renderState, stencil>>

(***************************************************************************)
(* Inputs: the create-infos and the collaborators' outcomes explored.      *)
(***************************************************************************)
BaseInfo ==
    [stageCount            |-> 1,
     hasLayout             |-> TRUE,
     tempBufferSize        |-> 1,
     dynamicStates         |-> {},
     hasViewportState      |-> TRUE,
     viewportCount         |-> 2,
     depthBiasEnable       |-> TRUE,
     rasterizationNext     |-> << >>,
     rasterizationSamples  |-> 4,
     customSampleLocations |-> TRUE,
     sampleShadingEnable   |-> FALSE,
     minSampleShading      |-> <<1, 1>>,
     colorSampleCount      |-> 4,
     colorTargets          |-> <<[blendEnable |-> TRUE, formatDefined |-> TRUE]>>,
     hasDepthStencil       |-> TRUE,
     depthBoundsTestEnable |-> TRUE,
     raster                |-> 1,
     value                 |-> 1,
     binary                |-> 1]

\* Create-infos that differ in what the creation's failure paths read.
FaultInfos ==
    {[BaseInfo EXCEPT !.stageCount = n, !.hasLayout = l] :
        n \in 1 .. MaxStages, l \in BOOLEAN}

\* Create-infos that differ in what the token cache reads: the categories
\* left dynamic, and <<triangle raster contents, contents of the others>>.
CacheInfos ==
    LET some == {"VIEWPORT", "LINE_WIDTH", "SAMPLE_LOCATIONS_EXT"}
    IN  {[BaseInfo EXCEPT !.dynamicStates = t[1], !.raster = t[2], !.value = t[3]] :
            t \in {<<{}, 1, 1>>, <<{}, 1, 2>>, <<{}, 2, 2>>,
                   <<some, 1, 1>>, <<some, 2, 2>>}}

\* Create-infos that differ in what a bind reads: the categories left
\* dynamic, and <<viewport count, parameter contents, program>>.
\* Two of them leave stencil categories dynamic: all three, and the
\* reference alone.
BindInfos ==
    {[BaseInfo EXCEPT !.dynamicStates = dyn, !.viewportCount = t[1],
                      !.raster = t[2], !.value = t[2], !.binary = t[3]] :
        dyn \in {{}, {"VIEWPORT", "SCISSOR", "DEPTH_BIAS"}},
        t \in {<<2, 1, 1>>, <<3, 2, 2>>, <<2, 2, 1>>}}
    \cup
    {[BaseInfo EXCEPT !.dynamicStates = dyn, !.raster = 2, !.value = 2] :
        dyn \in {{"STENCIL_COMPARE_MASK", "STENCIL_WRITE_MASK", "STENCIL_REFERENCE"},
                 {"STENCIL_REFERENCE"}}}

\* Create-infos that differ in what the parse reads: the state blocks
\* present, their enables, and the categories flagged dynamic.
ParseDynamicStates ==
    LET some == {"VIEWPORT", "LINE_WIDTH", "BLEND_CONSTANTS", "STENCIL_REFERENCE",
                 "SAMPLE_LOCATIONS_EXT"}
    IN  {{}, some, DynamicStates \ some, DynamicStates}

\* Colour attachments: none, blending on a defined format, blending on an
\* undefined format only, and blending on the second target only.
ParseColorTargets ==
    LET t(b, d) == [blendEnable |-> b, formatDefined |-> d]
    IN  {<< >>, <<t(TRUE, TRUE)>>, <<t(TRUE, FALSE)>>,
         <<t(FALSE, TRUE), t(TRUE, TRUE)>>, <<t(TRUE, FALSE), t(FALSE, TRUE)>>}

ParseInfos ==
    {[BaseInfo EXCEPT !.dynamicStates = dyn,
                      !.hasViewportState = b[1],
                      !.depthBiasEnable = b[2],
                      !.rasterizationSamples = IF b[3] THEN 4 ELSE 1,
                      !.customSampleLocations = b[4],
                      !.hasDepthStencil = b[5],
                      !.depthBoundsTestEnable = b[6],
                      !.colorTargets = targets] :
        dyn \in ParseDynamicStates, b \in [1 .. 6 -> BOOLEAN],
        targets \in ParseColorTargets}

\* Create-infos that differ in what the multisample block reads: the
\* rasterization sample count (3 has no default pattern), whether custom
\* locations are enabled and whether they are flagged dynamic.
SampleCounts == {1, 2, 3, 4, 8, 16}

SampleInfos ==
    {[BaseInfo EXCEPT !.rasterizationSamples = n,
                      !.customSampleLocations = custom,
                      !.dynamicStates = dyn,
                      !.value = v] :
        n \in SampleCounts, custom \in BOOLEAN,
        dyn \in {{}, {"SAMPLE_LOCATIONS_EXT"}}, v \in Values}

\* Create-infos that differ in what the sample shading reads: the sample
\* count, the enable, the minimum ratio and the subpass' colour sample count.
ShadingRatios == {<<0, 1>>, <<1, 8>>, <<3, 8>>, <<1, 2>>, <<5, 8>>, <<1, 1>>}

ShadingInfos ==
    {[BaseInfo EXCEPT !.rasterizationSamples = n,
                      !.sampleShadingEnable = e,
                      !.minSampleShading = r,
                      !.colorSampleCount = c] :
        n \in {1, 4, 8}, e \in BOOLEAN, r \in ShadingRatios, c \in {0, 2, 4, 8}}

\* Create-infos that differ in what the chain walk and the dynamic-state
\* loop read: the blocks chained to the rasterization state (a
\* rasterization-order block, a block of unknown kind, a second
\* rasterization-state block) and an unknown dynamic-state identifier.
ChainBlocks ==
    {[sType |-> t, depthBiasEnable |-> FALSE, polygonMode |-> 2, value |-> 2] :
        t \in {"PIPELINE_RASTERIZATION_STATE_RASTERIZATION_ORDER_AMD",
               "UNKNOWN",
               "PIPELINE_RASTERIZATION_STATE_CREATE_INFO"}}

Chains == UNION {[1 .. n -> ChainBlocks] : n \in 0 .. MaxChain}

ChainInfos ==
    {[BaseInfo EXCEPT !.rasterizationNext = chain, !.dynamicStates = dyn] :
        chain \in Chains,
        dyn \in {{}, {"UNKNOWN_EXT"}, {"DEPTH_BIAS"}, {"LINE_WIDTH", "UNKNOWN_EXT"}}}

\* What a sample count outside the default patterns may lead to.
ContractOutcomes == {"abort", "zeros", "other"}

ParseFaults == {[NoFault EXCEPT !.contract = c] : c \in ContractOutcomes}

CreateInfos ==
    FaultInfos \cup CacheInfos \cup BindInfos \cup ParseInfos \cup SampleInfos
    \cup ShadingInfos \cup ChainInfos

\* The outcomes of the collaborators: any set of failing stage mappings,
\* together with at most one other failure.
Faults ==
    LET base(m) == [NoFault EXCEPT !.mapFail = m]
    IN  UNION {
          {base(m)}
          \cup {[base(m) EXCEPT !.tempAlloc = TRUE]}
          \cup {[base(m) EXCEPT !.compiler = c] : c \in {"fail", "failAfterAlloc"}}
          \cup {[base(m) EXCEPT !.sysAlloc = TRUE]}
          \cup {[base(m) EXCEPT !.pipeFail = {dev}] : dev \in Devices}
          \cup {[base(m) EXCEPT !.stateFail = {<<dev, k>>}] :
                    dev \in Devices, k \in StateKinds}
          : m \in SUBSET (0 .. (MaxStages - 1)) }

\* The entries of one vkCreateGraphicsPipelines call: up to MaxCount
\* create-infos, each with a failure of the compiler, of the backing
\* allocation, of the construction on device 0, or none.
BatchInfos == {ci \in FaultInfos : ci.hasLayout /\ ci.stageCount = 1}

BatchFaults ==
    {NoFault, [NoFault EXCEPT !.compiler = "fail"], [NoFault EXCEPT !.sysAlloc = TRUE],
     [NoFault EXCEPT !.pipeFail = {0}]}

Batches == UNION {[1 .. n -> BatchInfos \X BatchFaults] : n \in 0 .. MaxCount}

CreateGraphicsPipelinesAny == \E entries \in Batches : CreateGraphicsPipelines(entries)

CreateAny(infos, faults) ==
    \E ci \in infos, f \in faults :
        /\ f.mapFail \subseteq 0 .. (ci.stageCount - 1)
        /\ Create(ci, f)

DestroyAny == \E h \in Handles : Destroy(h)

BindAny == \E h \in Handles, mask \in DeviceMasks : BindToCmdBuffer(h, mask)

LookupAny ==
    \E n \in SampleCounts, c \in ContractOutcomes : GetDefaultPattern(n, c)

\* The outcomes of the steps of Device::Initialize, at most two of them
\* failing, and the two settings.
InitializeFaults ==
    [fail : {x \in SUBSET {InitializeSteps[i] : i \in 1 .. Len(InitializeSteps)} :
                Cardinality(x) <= 2},
     useSharedCmdAllocator : BOOLEAN,
     IsTracingSupportEnabled : BOOLEAN]

DeviceCreateAny == \E f \in InitializeFaults : DeviceCreate(f)

\* The outcomes of the compiler, of the allocation and of the construction
\* on each device.
InternalPipelineFaults ==
    [shaderModule : {"Success", "Delayed", "ErrorUnavailable"},
     computePipeline : {"Success", "ErrorInvalidShader"},
     allocFail : BOOLEAN,
     pipeFail : SUBSET (0 .. (MaxDevices - 1))]

CreateLlpcInternalComputePipelineAny ==
    \E f \in InternalPipelineFaults :
        /\ f.pipeFail \subseteq Devices
        /\ CreateLlpcInternalComputePipeline(f)

\* The modules explored: up to MaxFuncs functions, at most one of them an
\* entry point, each using at most one function.
Modules ==
    UNION {[n : {k}, entries : {{}} \cup {{e} : e \in 1 .. k},
            uses : [1 .. k -> 0 .. k]] : k \in 0 .. MaxFuncs}

runOnModuleAny == last.op = "None" /\ \E m \in Modules : runOnModule(m)

CounterAny ==
    \E t \in Threads :
        \/ GetPipelineCacheExpectedEntryCount(t)
        \/ GetPipelineCacheExpectedEntryCountReturn(t)
        \/ DecreasePipelineCacheCount(t)
        \/ DecreasePipelineCacheCountReturn(t)

Next ==
    \/ CreateAny(CreateInfos, Faults)
    \/ CreateGraphicsPipelinesAny
    \/ DestroyAny
    \/ BindAny
    \/ ResetState
    \/ LookupAny
    \/ Return
    \/ CounterAny
    \/ DeviceCreateAny
    \/ CreateLlpcInternalComputePipelineAny
    \/ runOnModuleAny

Spec == Init /\ [][Next]_vars

\* Runs of the dead-function removal pass.
NextDeadFunc ==
    \/ runOnModuleAny
    \/ Return

SpecDeadFunc == Init /\ [][NextDeadFunc]_vars

\* Bring-up of the device.
NextDevice ==
    \/ DeviceCreateAny
    \/ CreateLlpcInternalComputePipelineAny
    \/ Return

SpecDevice == Init /\ [][NextDevice]_vars

\* Concurrent calls on the pipeline-cache counter, under every threshold.
NextCounter == CounterAny

InitCounterSettings ==
    /\ InitGraphics
    /\ settings \in Settings
    /\ InitCounter

SpecCounter == InitCounterSettings /\ [][NextCounter]_vars

\* Lookups of the default sample patterns.
NextLookup ==
    \/ LookupAny
    \/ Return

SpecLookup == Init /\ [][NextLookup]_vars

\* Pipeline creation under every outcome of the collaborators.
NextCreate ==
    \/ FreeHandles = Handles /\ CreateAny(FaultInfos, Faults)
    \/ DestroyAny
    \/ Return

SpecCreate == Init /\ [][NextCreate]_vars

\* Creation of several pipelines by one call.
NextBatch ==
    \/ CreateGraphicsPipelinesAny
    \/ DestroyAny
    \/ Return

SpecBatch == Init /\ [][NextBatch]_vars

\* Creation and destruction of pipelines that share the token cache.
NextCache ==
    \/ CreateAny(CacheInfos, {NoFault})
    \/ DestroyAny
    \/ Return

\* The cache is the one of a device group of a single device.
InitCache == Init /\ numPalDevices = 1

SpecCache == InitCache /\ [][NextCache]_vars

\* The parse of one create-info, every collaborator succeeding.
NextParse ==
    \/ FreeHandles = Handles /\ CreateAny(ParseInfos \cup SampleInfos \cup ShadingInfos \cup ChainInfos,
                                         ParseFaults)
    \/ Return

SpecParse == Init /\ [][NextParse]_vars

\* Binding of successfully created pipelines.
NextBind ==
    \/ CreateAny(BindInfos, {NoFault})
    \/ BindAny
    \/ ResetState
    \/ Return

SpecBind == Init /\ [][NextBind]_vars

(***************************************************************************)
(* Properties of GraphicsPipeline::Create (SpecCreate).                    *)
(***************************************************************************)
NoLivePipeline == \A h \in Handles : ~pipelines[h].live

\* The devices on which the call attempted CreateGraphicsPipeline.
AttemptedDevices == {last.call.attempts[i].dev : i \in 1 .. Len(last.call.attempts)}

\* The call attempted the native pipeline of device k and it failed.
PipelineFailedOn(k) ==
    /\ last.op = "Create"
    /\ k \in last.fault.pipeFail
    /\ k \in AttemptedDevices

StateCreateFailed ==
    /\ last.op = "Create"
    /\ \E x \in last.fault.stateFail : last.call.stateCalls[x[2]] > x[1]

\* C2: when the creation of an MSAA, colour-blend or depth-stencil state
\* object fails, the call returns an error, destroys every native pipeline
\* and state object it created and returns no handle.
CreateFailsOnStateFailure ==
    StateCreateFailed =>
        /\ ~last.call.success
        /\ last.call.destroyed = last.call.constructed
        /\ \A k \in StateKinds :
              last.call.stateSet[k] => last.call.stateDestroys[k] = 1
        /\ last.handle = VK_NULL_HANDLE
        /\ NoLivePipeline

\* C3: when the compiler reports a failure, BuildPatchedShaders returns
\* VK_ERROR_INITIALIZATION_FAILED without setting the binary outputs, and
\* Create constructs no native pipeline and no state object and returns no
\* handle.
CreateFailsOnCompilerFailure ==
    (last.op = "Create" /\ last.call.buildCalls = 1 /\ last.fault.compiler # "ok") =>
        /\ last.call.buildResult = "VK_ERROR_INITIALIZATION_FAILED"
        /\ ~last.call.binaryOut
        /\ last.call.result = "VK_ERROR_INITIALIZATION_FAILED"
        /\ last.call.attempts = << >>
        /\ last.call.constructed = {}
        /\ \A k \in StateKinds : last.call.stateCalls[k] = 0
        /\ last.handle = VK_NULL_HANDLE
        /\ NoLivePipeline

CompilerFailureSeen ==
    /\ last.op = "Create"
    /\ last.call.buildCalls = 1
    /\ last.fault.compiler = "fail"
    /\ last.call.result = "VK_ERROR_INITIALIZATION_FAILED"

\* The scratch allocation or the resource mapping of a stage failed before
\* the compiler's turn (the parse itself cannot fail).
FailedBeforeCompiler ==
    /\ last.hasLayout
    /\ (last.fault.tempAlloc \/ last.fault.mapFail # {})

\* C10: a creation call invokes the compiler's build once, whatever the
\* number of stages, and not at all when the scratch allocation or the
\* resource mapping of a stage has failed before.
BuildOnceUnlessFailedBefore ==
    last.op = "Create" =>
        last.call.buildCalls = IF FailedBeforeCompiler THEN 0 ELSE 1

(***************************************************************************)
(* Properties of GraphicsPipeline::BindToCmdBuffer (SpecBind).             *)
(***************************************************************************)
\* The m_info of the pipeline of the most recent bind.
BoundInfo == pipelines[last.handle].info

\* The categories the pipeline of the most recent bind baked.
BakedCats == {c \in TokenCats : BoundInfo.staticTokens[c] # DynamicRenderStateToken}

\* The commands that send a viewport (scissor) array.
ViewportArrayCmds == {"viewport", "CmdSetViewports"}
ScissorArrayCmds == {"scissorRect", "CmdSetScissorRects"}

\* C4: on every device of the mask and for every category the pipeline
\* baked, the state-set command of the category is emitted exactly when the
\* pipeline's token differs from the token bound before the call, and the
\* bound token is then the pipeline's; otherwise it is as it was.
BindWritesIffTokenDiffers ==
    last.op = "Bind" =>
        \A dev \in last.mask : \A c \in BakedCats :
            LET old == last.old.staticTokens[c]
                new == BoundInfo.staticTokens[c]
            IN  /\ (c \in last.emitted[dev]) <=> (old # new)
                /\ (old # new) => renderState.staticTokens[c] = new
                /\ (old = new) => renderState.staticTokens[c] = old

BindWroteSomeSkippedSome ==
    /\ last.op = "Bind"
    /\ last.mask = Devices
    /\ numPalDevices > 1
    /\ \E c \in BakedCats : \A dev \in last.mask : c \in last.emitted[dev]
    /\ \E c \in BakedCats :
          /\ last.old.staticTokens[c] = BoundInfo.staticTokens[c]
          /\ \A dev \in last.mask : c \notin last.emitted[dev]

\* The most recent bind is the second of two binds in a row of one pipeline
\* without dynamic categories, on a render state that was fresh before them.
SecondBindInARow ==
    /\ last.op = "Bind"
    /\ last.old.binds = 1
    /\ last.old.pGraphicsPipeline = last.handle
    /\ BakedCats = TokenCats

\* C5: the second of two binds in a row of a pipeline without dynamic
\* categories, on a fresh render state, emits no token-checked state-set
\* command.
SecondBindWritesNothing ==
    SecondBindInARow => TokenWrites(last.emitted) = {}

SecondBindReached ==
    /\ SecondBindInARow
    /\ last.mask = Devices
    /\ \A c \in TokenCats : renderState.staticTokens[c] = BoundInfo.staticTokens[c]

\* C6: when the pipeline's viewport (scissor) count differs from the cached
\* count, the viewport (scissor) array is sent on every device of the mask,
\* by the re-send of the current values when the token check wrote nothing;
\* the cached count is the pipeline's after the bind; with the count and the
\* token unchanged no array is sent.
BindResendsOnCountChange ==
    last.op = "Bind" =>
        LET vpCount   == BoundInfo.params["viewport"].count
            scCount   == BoundInfo.params["scissorRect"].count
            vpChanged == last.old.viewportCount # vpCount
            scChanged == last.old.scissorCount # scCount
            vpSame    == renderState.staticTokens["viewport"] = last.old.staticTokens["viewport"]
            scSame    == renderState.staticTokens["scissorRect"] = last.old.staticTokens["scissorRect"]
        IN  /\ renderState.viewportCount = vpCount
            /\ renderState.scissorCount = scCount
            /\ \A dev \in last.mask :
                  /\ vpChanged => last.emitted[dev] \cap ViewportArrayCmds # {}
                  /\ (vpChanged /\ vpSame) => "CmdSetViewports" \in last.emitted[dev]
                  /\ (~vpChanged /\ vpSame) => last.emitted[dev] \cap ViewportArrayCmds = {}
                  /\ scChanged => last.emitted[dev] \cap ScissorArrayCmds # {}
                  /\ (scChanged /\ scSame) => "CmdSetScissorRects" \in last.emitted[dev]
                  /\ (~scChanged /\ scSame) => last.emitted[dev] \cap ScissorArrayCmds = {}

\* The count went from 2 to 3 while every token stayed as it was.
CountChangedTokenUnchanged ==
    /\ last.op = "Bind"
    /\ last.old.viewportCount = 2
    /\ renderState.viewportCount = 3
    /\ renderState.staticTokens = last.old.staticTokens
    /\ last.old.staticTokens["viewport"] # DynamicRenderStateToken
    /\ last.mask = Devices
    /\ \A dev \in last.mask :
          {"CmdSetViewports", "CmdSetScissorRects"} \subseteq last.emitted[dev]

\* C7: CmdBindPipeline is emitted on a device of the mask exactly when no
\* graphics pipeline is recorded as bound or the recorded pipeline's hash on
\* that device differs from the new pipeline's.
BindPipelineIffHashDiffers ==
    last.op = "Bind" =>
        \A dev \in last.mask :
            ("CmdBindPipeline" \in last.emitted[dev]) <=>
                (  last.old.pGraphicsPipeline = VK_NULL_HANDLE
                \/ last.oldHash[dev] # pipelines[last.handle].palHash[dev] )

\* Another pipeline object with an equal hash was bound without the command.
EqualHashOtherPipelineBound ==
    /\ last.op = "Bind"
    /\ last.old.pGraphicsPipeline \notin {VK_NULL_HANDLE, last.handle}
    /\ \A dev \in last.mask :
          /\ last.oldHash[dev] = pipelines[last.handle].palHash[dev]
          /\ "CmdBindPipeline" \notin last.emitted[dev]

(***************************************************************************)
(* Properties of the static tokens (SpecCache).                            *)
(***************************************************************************)
LivePipelines == {h \in Handles : pipelines[h].live}

\* The cache holds the token under the parameters it was handed out for.
TokenValid(c, params, token) ==
    \E e \in cache[c].entries : e.key = params /\ e.token = token

\* C8: pipelines with equal triangle raster parameters hold the same token,
\* and the token of a live pipeline stays in the cache under its parameters
\* whatever other pipelines are destroyed, so that a pipeline created later
\* with these parameters gets it again.
EqualRasterParamsShareToken ==
    LET c == "triangleRasterState"
    IN  /\ \A h1 \in LivePipelines, h2 \in LivePipelines :
              pipelines[h1].info.params[c] = pipelines[h2].info.params[c]
                  => pipelines[h1].info.staticTokens[c] = pipelines[h2].info.staticTokens[c]
        /\ \A h \in LivePipelines :
              /\ pipelines[h].info.staticTokens[c] # DynamicRenderStateToken
              /\ TokenValid(c, pipelines[h].info.params[c], pipelines[h].info.staticTokens[c])

\* A pipeline created in the place of a destroyed one got the token of the
\* surviving pipeline with the same triangle raster parameters.
ThirdPipelineSharesToken ==
    LET c == "triangleRasterState"
    IN  /\ last.op = "Create"
        /\ last.handle = 1
        /\ pipelines[2].live
        /\ pipelines[1].info.params[c] = pipelines[2].info.params[c]
        /\ pipelines[1].info.params # pipelines[2].info.params
        /\ pipelines[1].info.staticTokens[c] = pipelines[2].info.staticTokens[c]

\* The pipeline baked category c at creation.
Baked(info, c) ==
    \/ c \in {"inputAssemblyState", "triangleRasterState"}
    \/ StateOf(c) \in info.staticStateMask

\* The live pipelines that baked the value params of category c.
Referencing(c, params) ==
    {h \in LivePipelines :
        Baked(pipelines[h].info, c) /\ pipelines[h].info.params[c] = params}

\* C9: the reference count of every cache entry is the number of live
\* pipelines that baked its value, an entry leaves with its last pipeline,
\* every baked token of a live pipeline has its entry, and a category left
\* dynamic holds the dynamic token and counts in no entry.
RefCountIsLiveBakers ==
    \A c \in TokenCats :
        /\ \A e \in cache[c].entries :
              /\ e.refCount = Cardinality(Referencing(c, e.key))
              /\ e.refCount >= 1
        /\ \A h \in LivePipelines :
              IF Baked(pipelines[h].info, c)
              THEN TokenValid(c, pipelines[h].info.params[c],
                              pipelines[h].info.staticTokens[c])
              ELSE pipelines[h].info.staticTokens[c] = DynamicRenderStateToken

\* A pipeline with a dynamic category was destroyed: the entry it alone
\* referenced is gone, the entry it shared has one reference less, and the
\* entry of the category it left dynamic is as the other pipeline holds it.
LastReferenceReleased ==
    /\ last.op = "Destroy"
    /\ ~Baked(last.info, "pointLineRasterState")
    /\ ~HasKey(cache["depthBias"], last.info.params["depthBias"])
    /\ \E h \in LivePipelines :
          /\ pipelines[h].info.params["triangleRasterState"] =
                 last.info.params["triangleRasterState"]
          /\ Baked(pipelines[h].info, "pointLineRasterState")
          /\ \E e \in cache["pointLineRasterState"].entries : e.refCount = 1
          /\ \E e \in cache["triangleRasterState"].entries : e.refCount = 1

(***************************************************************************)
(* Properties of the parse of the create-info (SpecParse).                 *)
(***************************************************************************)
\* The static-state mask the most recent creation produced.
ParsedMask == last.call.info

\* The create-info holds a constant value for the category of bit s.
ValuePresent(ci, s) ==
    CASE s \in {"VIEWPORT", "SCISSOR"} -> ci.hasViewportState
      [] s = "DEPTH_BIAS"               -> ci.depthBiasEnable
      [] s = "LINE_WIDTH"               -> TRUE
      [] s = "SAMPLE_LOCATIONS_EXT"     -> multisampleEnable(ci)
      [] s = "BLEND_CONSTANTS"          -> blendingEnabled(ci)
      [] s = "DEPTH_BOUNDS"             -> ci.hasDepthStencil /\ ci.depthBoundsTestEnable
      [] OTHER                          -> ci.hasDepthStencil

ConditionalBaking ==
    last.op = "Create" =>
        LET ci == last.ci
            blends == \E i \in 1 .. Len(ci.colorTargets) :
                          /\ ci.colorTargets[i].blendEnable
                          /\ ci.colorTargets[i].formatDefined
        IN  /\ ("DEPTH_BIAS" \in ParsedMask) <=>
                  (ci.depthBiasEnable /\ "DEPTH_BIAS" \notin ci.dynamicStates)
            /\ ("BLEND_CONSTANTS" \in ParsedMask) <=>
                  (blends /\ "BLEND_CONSTANTS" \notin ci.dynamicStates)

\* Blending was enabled only on a target of undefined format, so the blend
\* constants were not baked although they are not dynamic; depth bias was.
UndefinedTargetNotCounted ==
    /\ last.op = "Create"
    /\ \E i \in 1 .. Len(last.ci.colorTargets) : last.ci.colorTargets[i].blendEnable
    /\ "BLEND_CONSTANTS" \notin last.ci.dynamicStates
    /\ "BLEND_CONSTANTS" \notin ParsedMask
    /\ "DEPTH_BIAS" \in ParsedMask

ParsedSamplePattern == last.immed["samplePattern"]

\* A multisampled create-info whose sample count has a default pattern.
MultisampledSupported(ci) ==
    ci.rasterizationSamples \in {2, 4, 8, 16}

DefaultPatternBaked(ci) ==
    /\ ParsedSamplePattern.sampleCount = ci.rasterizationSamples
    /\ ParsedSamplePattern.locations = GetDefaultQuadSamplePattern(ci.rasterizationSamples)
    /\ "SAMPLE_LOCATIONS_EXT" \in ParsedMask

CustomPatternBaked(ci) ==
    /\ ParsedSamplePattern.sampleCount = ci.rasterizationSamples
    /\ ParsedSamplePattern.locations = SampleLocationsOf(ci)
    /\ "SAMPLE_LOCATIONS_EXT" \in ParsedMask

NoPatternBaked ==
    /\ ParsedSamplePattern = NoSamplePattern
    /\ "SAMPLE_LOCATIONS_EXT" \notin ParsedMask

\* C13 as stated: for a multisampled pipeline, custom locations that are
\* enabled and not flagged dynamic are baked, and in every other case the
\* default pattern of the rasterization sample count is baked and the
\* sample-pattern bit set.
CustomElseDefaultPattern ==
    (last.op = "Create" /\ MultisampledSupported(last.ci)) =>
        IF  /\ last.ci.customSampleLocations
            /\ ~dynamicStateFlags(last.ci, "SAMPLE_LOCATIONS_EXT")
        THEN CustomPatternBaked(last.ci)
        ELSE DefaultPatternBaked(last.ci)

\* C13, amended: for a multisampled pipeline, custom locations that are
\* enabled and not flagged dynamic are baked; with custom locations
\* disabled the default pattern of the rasterization sample count is baked
\* and the bit set, whatever the dynamic flag; with custom locations enabled
\* and flagged dynamic no pattern is baked and the bit is clear, as it is for
\* a pipeline of a single sample.
CustomDefaultOrNoPattern ==
    last.op = "Create" =>
        LET ci == last.ci
            flag == dynamicStateFlags(ci, "SAMPLE_LOCATIONS_EXT")
        IN  /\ MultisampledSupported(ci) =>
                 CASE ci.customSampleLocations /\ ~flag -> CustomPatternBaked(ci)
                   [] ~ci.customSampleLocations         -> DefaultPatternBaked(ci)
                   [] OTHER                             -> NoPatternBaked
            /\ ci.rasterizationSamples = 1 => NoPatternBaked

\* Custom locations enabled and flagged dynamic on an 8-sample pipeline:
\* nothing was baked.
DynamicCustomPatternParsed ==
    /\ last.op = "Create"
    /\ last.ci.rasterizationSamples = 8
    /\ last.ci.customSampleLocations
    /\ dynamicStateFlags(last.ci, "SAMPLE_LOCATIONS_EXT")
    /\ NoPatternBaked


\* The table index the default patterns are stored under, per sample count.
TableIndexOf(sampleCount) ==
    CASE sampleCount = 1 -> 0 [] sampleCount = 2 -> 1 [] sampleCount = 4 -> 2
      [] sampleCount = 8 -> 3 [] sampleCount = 16 -> 4

\* C14: for a sample count in {1, 2, 4, 8, 16} the lookups give the pattern
\* and the table index of that count; for any other count the lookup is an
\* error: the creation does not succeed, so no pipeline carries the index or
\* the pattern of another count.
DefaultLookupRestricted ==
    (last.op = "Create" /\ multisampleEnable(last.ci)) =>
        LET ci == last.ci
            n  == ci.rasterizationSamples
        IN  IF n \in {1, 2, 4, 8, 16}
            THEN /\ last.call.samplePatternIdx = TableIndexOf(n) * MaxMsaaRasterizerSamples
                 /\ ~ci.customSampleLocations =>
                        /\ ParsedSamplePattern.sampleCount = n
                        /\ ParsedSamplePattern.locations.topLeft =
                              SamplePositions(
                                 CASE n = 2 -> VK_DEFAULT_SAMPLE_PATTERN_2X
                                   [] n = 4 -> VK_DEFAULT_SAMPLE_PATTERN_4X
                                   [] n = 8 -> VK_DEFAULT_SAMPLE_PATTERN_8X
                                   [] OTHER -> VK_DEFAULT_SAMPLE_PATTERN_16X)
            ELSE ~last.call.success


PowersOfTwo == {1, 2, 4, 8, 16, 32}

\* The smallest power of two p with p >= count * num / den.
SmallestPowerAtLeast(count, ratio) ==
    CHOOSE p \in PowersOfTwo :
        /\ p * ratio[2] >= count * ratio[1]
        /\ \A q \in PowersOfTwo : q * ratio[2] >= count * ratio[1] => q >= p

\* C16: for a multisampled pipeline with sample shading enabled and a ratio
\* above 0 the pixel-shader sample count is the smallest power of two at
\* least the colour sample count (the coverage count when that is 0) times
\* the ratio, otherwise 1; 4 samples at 1/2 with 4 colour samples give 2; the
\* per-sample-shading hint is set exactly when the count exceeds 1.
PixelShaderSamplesResolved ==
    (last.op = "Create" /\ multisampleEnable(last.ci)) =>
        LET ci    == last.ci
            color == IF ci.colorSampleCount = 0
                     THEN ci.rasterizationSamples ELSE ci.colorSampleCount
            want  == IF ci.sampleShadingEnable /\ ci.minSampleShading[1] > 0
                     THEN SmallestPowerAtLeast(color, ci.minSampleShading)
                     ELSE 1
        IN  /\ last.call.pixelShaderSamples = want
            /\ last.call.perSampleShading <=> (want > 1)
            /\ (  ci.rasterizationSamples = 4 /\ ci.sampleShadingEnable
               /\ ci.minSampleShading = <<1, 2>> /\ color = 4 ) =>
                    last.call.pixelShaderSamples = 2

\* 8 samples at 3/8 with the colour count taken from the coverage count: 3
\* samples padded to 4.
ShadingPaddedToPowerOfTwo ==
    /\ last.op = "Create"
    /\ last.ci.rasterizationSamples = 8
    /\ last.ci.colorSampleCount = 0
    /\ last.ci.sampleShadingEnable
    /\ last.ci.minSampleShading = <<3, 8>>
    /\ last.call.pixelShaderSamples = 4
    /\ last.call.perSampleShading


(***************************************************************************)
(* Properties of the chain walk (SpecParse).                               *)
(***************************************************************************)
RecognizedBlock(b) ==
    b.sType \in {"PIPELINE_RASTERIZATION_STATE_CREATE_INFO",
                 "PIPELINE_RASTERIZATION_STATE_RASTERIZATION_ORDER_AMD"}

\* The create-info without its blocks of unknown kind and without its
\* unknown dynamic-state identifiers.
WithoutUnknown(ci) ==
    [ci EXCEPT !.rasterizationNext = SelectSeq(@, RecognizedBlock),
               !.dynamicStates = @ \cap DynamicStates]

\* C17: BuildRasterizationState visits each block of the chain once, in
\* chain order, and returns success; every rasterization-order block is
\* processed (the last one decides the order); a block of unknown kind and
\* an unknown dynamic-state identifier change nothing: the walk's fields,
\* the static-state mask and the immediate state are those of the same
\* create-info without them.
ChainWalkedOnce ==
    last.op = "Create" =>
        LET ci    == last.ci
            walk  == last.call.rasterization
            n     == Len(ci.rasterizationNext)
            plain == WithoutUnknown(ci)
            orders == {i \in 1 .. n : ci.rasterizationNext[i].sType =
                          "PIPELINE_RASTERIZATION_STATE_RASTERIZATION_ORDER_AMD"}
        IN  /\ walk.visited = [i \in 1 .. n + 1 |-> i]
            /\ walk.result = "VK_SUCCESS"
            /\ last.call.buildResult = "VK_SUCCESS"
            /\ ~walk.rasterizerDiscardEnable
            /\ orders # {} =>
                  walk.outOfOrderPrimsEnable =
                      ci.rasterizationNext[CHOOSE i \in orders : \A j \in orders : j <= i].value
            /\ [walk EXCEPT !.visited = << >>] =
                  [BuildRasterizationState(plain) EXCEPT !.visited = << >>]
            /\ ParsedMask = StaticStateMask(plain)
            /\ last.immed = ImmedInfoRead(plain, last.fault).params
            /\ \A s \in DynamicStates :
                  dynamicStateFlags(ci, s) <=> s \in ci.dynamicStates

\* A chain with a block of unknown kind before a rasterization-order block,
\* and an unknown dynamic-state identifier next to LINE_WIDTH: the order
\* block was processed and only LINE_WIDTH is dynamic.
UnknownBlockSkipped ==
    /\ last.op = "Create"
    /\ Len(last.ci.rasterizationNext) = 2
    /\ last.ci.rasterizationNext[1].sType = "UNKNOWN"
    /\ last.ci.rasterizationNext[2].sType =
          "PIPELINE_RASTERIZATION_STATE_RASTERIZATION_ORDER_AMD"
    /\ "UNKNOWN_EXT" \in last.ci.dynamicStates
    /\ last.call.rasterization.outOfOrderPrimsEnable = 2
    /\ last.call.rasterization.visited = <<1, 2, 3>>
    /\ "LINE_WIDTH" \notin ParsedMask
    /\ "DEPTH_BIAS" \in ParsedMask


(***************************************************************************)
(* Properties of the failure paths of Create (SpecCreate).                 *)
(***************************************************************************)
\* The call met a host allocation failure: of the scratch buffer, or of the
\* backing block of the pipeline.
HostAllocationFailed ==
    /\ last.op = "Create"
    /\ \/ last.ci.hasLayout /\ last.ci.tempBufferSize > 0 /\ last.fault.tempAlloc
       \/ last.call.buildResult = "VK_SUCCESS" /\ last.fault.sysAlloc

\* C18: a host allocation failure makes the call return
\* VK_ERROR_OUT_OF_HOST_MEMORY with no native pipeline constructed, no state
\* object created and no handle returned, and each buffer allocated in the
\* call (scratch buffer, shader buffer, backing block) is freed exactly once.
HostAllocationFailureIsFatal ==
    HostAllocationFailed =>
        /\ last.call.result = "VK_ERROR_OUT_OF_HOST_MEMORY"
        /\ last.call.attempts = << >>
        /\ last.call.constructed = {}
        /\ \A k \in StateKinds : last.call.stateCreates[k] = 0
        /\ last.handle = VK_NULL_HANDLE
        /\ NoLivePipeline
        /\ last.call.tempBufferFrees = last.call.tempBufferAllocs
        /\ last.call.shaderBufferFrees = last.call.shaderBufferAllocs
        /\ last.call.sysMemFrees = last.call.sysMemAllocs

\* The backing block could not be allocated after BuildPatchedShaders had
\* handed its scratch buffer and the shader buffer to Create: both were
\* freed once.
BackingBlockAllocationFailed ==
    /\ HostAllocationFailed
    /\ last.fault.sysAlloc
    /\ last.call.tempBufferAllocs = 1
    /\ last.call.tempBufferFrees = 1
    /\ last.call.shaderBufferAllocs = 1
    /\ last.call.sysMemAllocs = 0


\* The resource mapping was built for the stages and failed for one of them.
MappingFailed ==
    /\ last.op = "Create"
    /\ last.call.mappingCalls > 0
    /\ \E stage \in last.fault.mapFail : stage < last.ci.stageCount

\* C19: when building the resource mapping fails for any one of the active
\* stages, BuildPatchedShaders returns a failure, the compiler is not
\* invoked and the creation fails without a handle.
MappingFailureSurfaces ==
    MappingFailed =>
        /\ last.call.buildResult = "VK_ERROR_INITIALIZATION_FAILED"
        /\ last.call.buildCalls = 0
        /\ ~last.call.success
        /\ last.handle = VK_NULL_HANDLE


\* C20: each kind of state object is created once per creation call,
\* whatever the size of the device group, and destroyed exactly once: by
\* the rollback of a failed Create, or by Destroy of the pipeline.
StateCreatesMatchDestroys ==
    \A k \in StateKinds :
        /\ last.op = "Create" =>
              /\ last.call.stateCreates[k] <= 1
              /\ ~last.call.success =>
                    last.call.stateDestroys[k] = last.call.stateCreates[k]
        /\ last.op = "Destroy" =>
              last.stateDestroys[k] = last.stateCreates[k]


(***************************************************************************)
(* Properties of the backing block of Create (SpecCreate).                 *)
(***************************************************************************)
\* The sum of the pipeline sizes of the devices below dev.
RECURSIVE SizesBelow(_)
SizesBelow(dev) ==
    IF dev = 0 THEN 0 ELSE GetGraphicsPipelineSize(dev - 1) + SizesBelow(dev - 1)

\* C21: the block allocated is the header plus the sum of the per-device
\* sizes; the native pipeline of device i is constructed at the header size
\* plus the sizes of the devices 0..i-1, so the regions follow each other
\* in device order, are pairwise disjoint and lie inside the block.
RegionsDisjointInBlock ==
    (last.op = "Create" /\ last.call.buildResult = "VK_SUCCESS") =>
        LET a == last.call.attempts
            end(i) == a[i].offset + GetGraphicsPipelineSize(a[i].dev)
        IN  /\ last.call.blockSize = HeaderSize + SizesBelow(numPalDevices)
            /\ \A i \in DOMAIN a :
                  /\ a[i].dev = i - 1
                  /\ a[i].offset = HeaderSize + SizesBelow(a[i].dev)
                  /\ a[i].offset >= HeaderSize
                  /\ end(i) <= last.call.blockSize
                  /\ \A j \in DOMAIN a : i < j => end(i) <= a[j].offset

\* Both devices of a group of two had their pipeline constructed.
TwoRegionsConstructed ==
    /\ last.op = "Create"
    /\ last.call.success
    /\ Len(last.call.attempts) = 2
    /\ last.call.constructed = {0, 1}


(***************************************************************************)
(* Properties of a bind on several devices (SpecBind).                     *)
(***************************************************************************)
\* C22: in one bind every device of the mask receives the same token-checked
\* state-set commands, those of the categories the pipeline bakes whose
\* token differed from the one bound before the call: the update of the
\* bound token made for an earlier device suppresses nothing on a later one.
SameWritesOnEveryDevice ==
    last.op = "Bind" =>
        LET info == pipelines[last.handle].info
            due  == {c \in TokenCats :
                        /\ c \in AlwaysStatic \/ StateOf(c) \in info.staticStateMask
                        /\ last.old.staticTokens[c] # info.staticTokens[c]}
        IN  \A dev \in last.mask : last.emitted[dev] \cap TokenCats = due

\* A bind on both devices of the group that wrote a state on each.
BothDevicesWritten ==
    /\ last.op = "Bind"
    /\ last.mask = {0, 1}
    /\ last.emitted[1] \cap InLoopCats # {}
    /\ last.emitted[0] \cap TokenCats = last.emitted[1] \cap TokenCats


(***************************************************************************)
(* Properties of the static tokens of a pipeline (SpecParse).               *)
(***************************************************************************)
\* C23: after CreateStaticState the token of point/line raster, depth bias,
\* blend constants, depth bounds, viewport, scissor and sample pattern is the
\* DynamicRenderStateToken exactly when the bit of the category is clear in
\* the static-state mask; the input-assembly and triangle-raster tokens come
\* from the cache and are never the DynamicRenderStateToken.
DynamicTokenIffBitClear ==
    \A h \in Handles :
        pipelines[h] # NoPipeline =>
            LET info == pipelines[h].info
            IN  /\ \A c \in TokenCats \ AlwaysStatic :
                       (info.staticTokens[c] = DynamicRenderStateToken)
                           <=> (StateOf(c) \notin info.staticStateMask)
                /\ \A c \in AlwaysStatic :
                       info.staticTokens[c] # DynamicRenderStateToken

\* A pipeline was created that bakes one of the seven categories and leaves
\* another dynamic.
SomeBakedSomeDynamic ==
    /\ last.op = "Create"
    /\ last.handle # VK_NULL_HANDLE
    /\ pipelines[last.handle] # NoPipeline
    /\ \E c, d \in TokenCats \ AlwaysStatic :
           /\ StateOf(c) \in pipelines[last.handle].info.staticStateMask
           /\ pipelines[last.handle].info.staticTokens[c] # DynamicRenderStateToken
           /\ StateOf(d) \notin pipelines[last.handle].info.staticStateMask
           /\ pipelines[last.handle].info.staticTokens[d] = DynamicRenderStateToken


(***************************************************************************)
(* Properties of the dynamic categories at bind time (SpecBind).            *)
(***************************************************************************)
\* The categories the bound pipeline leaves dynamic.
DynamicCats ==
    {c \in TokenCats \ AlwaysStatic :
        StateOf(c) \notin pipelines[last.handle].info.staticStateMask}

\* C24: for a category the pipeline leaves dynamic the bind emits no command
\* carrying the pipeline's value on any device and leaves the bound token as
\* it was, whatever it was; the only viewport (scissor) command then emitted
\* is the re-send of the cached values, and only on a change of the count.
DynamicCategoryUntouched ==
    last.op = "Bind" =>
        LET info == pipelines[last.handle].info
        IN  \A c \in DynamicCats :
                /\ renderState.staticTokens[c] = last.old.staticTokens[c]
                /\ \A dev \in last.mask :
                      /\ c \notin last.emitted[dev]
                      /\ (c = "viewport" /\ "CmdSetViewports" \in last.emitted[dev])
                            => last.old.viewportCount # info.params["viewport"].count
                      /\ (c = "scissorRect" /\ "CmdSetScissorRects" \in last.emitted[dev])
                            => last.old.scissorCount # info.params["scissorRect"].count

\* A pipeline with dynamic viewport and depth bias was bound over tokens of
\* a pipeline that baked them, and the viewports were sent again.
DynamicBoundOverBaked ==
    /\ last.op = "Bind"
    /\ {"viewport", "depthBias"} \subseteq DynamicCats
    /\ last.old.staticTokens["viewport"] # DynamicRenderStateToken
    /\ last.old.staticTokens["depthBias"] # DynamicRenderStateToken
    /\ renderState.staticTokens["depthBias"] = last.old.staticTokens["depthBias"]
    /\ \E dev \in last.mask : "CmdSetViewports" \in last.emitted[dev]


(***************************************************************************)
(* Properties of Device::CreateGraphicsPipelines (SpecBatch).               *)
(***************************************************************************)
\* The entries of the call whose creation failed.
FailedEntries ==
    {i \in 1 .. Len(last.results) : last.results[i] # "VK_SUCCESS"}

\* C25: the call attempts every one of its count create-infos, whatever
\* became of the earlier ones; a failed entry is left with the null handle
\* and a succeeded one with the handle of a live pipeline; the call returns
\* VK_SUCCESS exactly when every entry succeeded and otherwise the error of
\* the last entry that failed.
EveryEntryAttempted ==
    last.op = "CreateGraphicsPipelines" =>
        /\ Len(last.results) = last.count
        /\ Len(last.pPipelines) = last.count
        /\ \A i \in 1 .. last.count :
              /\ last.results[i] =
                    CreateCall(last.entries[i][1], last.entries[i][2]).result
              /\ (i \in FailedEntries) <=> (last.pPipelines[i] = VK_NULL_HANDLE)
              /\ (i \notin FailedEntries) => pipelines[last.pPipelines[i]].live
        /\ (last.finalResult = "VK_SUCCESS") <=> (FailedEntries = {})
        /\ FailedEntries # {} =>
              last.finalResult =
                  last.results[CHOOSE i \in FailedEntries : \A j \in FailedEntries : j <= i]

\* A call of three entries: the first failed, the second succeeded, the
\* third failed with another error, which is the one returned.
FailedSucceededFailed ==
    /\ last.op = "CreateGraphicsPipelines"
    /\ last.count = 3
    /\ FailedEntries = {1, 3}
    /\ last.results[1] # last.results[3]
    /\ last.pPipelines[2] # VK_NULL_HANDLE
    /\ last.finalResult = last.results[3]


(***************************************************************************)
(* Properties of the pipeline-cache counter (SpecCounter).                  *)
(***************************************************************************)
\* C26: the counter starts at 0 and, under every interleaving, is the number
\* of GetPipelineCacheExpectedEntryCount calls that have incremented it
\* minus the number of DecreasePipelineCacheCount calls that have
\* decremented it, which with no call in flight is completed calls minus
\* completed calls; a GetPipelineCacheExpectedEntryCount that has returned
\* returned a non-zero count exactly when the value its own increment
\* produced exceeds the threshold divided by the number of devices.
NoUpdateLost ==
    /\ m_pipelineCacheCount =
          (completed.gets + Cardinality(Incremented))
          - (completed.decs + Cardinality(Decremented))
    /\ (Incremented = {} /\ Decremented = {}) =>
          m_pipelineCacheCount = completed.gets - completed.decs
    /\ (completed.gets = 0 /\ Incremented = {}) => m_pipelineCacheCount = 0
    /\ \A t \in Threads :
          (calls[t].op = "Get" /\ calls[t].pc = "idle") =>
              /\ calls[t].expectedEntries \in {0, 1024, 4096}
              /\ (calls[t].expectedEntries # 0) <=>
                    (calls[t].value >
                        settings.excessivePipelineCacheCountThreshold \div numPalDevices)

\* Two calls overlapped: one returned a count for the value 2 of its own
\* increment although the counter is back at 1, the other returned 0 for 1.
OverlappingCallsReturned ==
    /\ numPalDevices = 2
    /\ settings.excessivePipelineCacheCountThreshold = 3
    /\ m_pipelineCacheCount = 1
    /\ \E t, u \in Threads :
          /\ calls[t].op = "Get" /\ calls[t].pc = "idle"
          /\ calls[t].value = 2 /\ calls[t].expectedEntries # 0
          /\ calls[u].op = "Decrease"


(***************************************************************************)
(* Properties of the bring-up of the device (SpecDevice).                   *)
(***************************************************************************)
\* The steps whose failure the claim is about, and the later steps it names.
EarlySteps ==
    {"m_internalMemMgr.Init", "m_renderStateCache.Init", "GetCmdAllocatorSize",
     "AllocMem(CmdAllocator)", "CreateCmdAllocator", "AcquireAllocator"}

LaterSteps ==
    {"CreateLlpcInternalPipelines", "CreateBltMsaaStates", "SetSamplePatternPalette"}

\* C27: when the internal memory manager, the render state cache, the shared
\* command allocator or the stack allocator fails to initialize, Initialize
\* returns that error, the internal pipelines, the blit MSAA states and the
\* sample pattern palette are not set up, and Device::Create destroys the
\* device and returns the error.
InitializeFailureIsFatal ==
    last.op = "DeviceCreate" =>
        \A step \in EarlySteps \cap last.failed :
            /\ last.initialize = ErrorOf(step)
            /\ last.executed \cap LaterSteps = {}
            /\ last.destroyed
            /\ ~last.ppDevice
            /\ last.result = ErrorOf(step)


(***************************************************************************)
(* Properties of Device::CreateLlpcInternalComputePipeline (SpecDevice).    *)
(***************************************************************************)
\* C28: the call returns VK_SUCCESS only if the pipeline was constructed on
\* every device; when the construction fails on any device the call returns
\* an error, destroys every pipeline it constructed, frees the backing
\* memory and leaves the InternalPipeline output as it was.
InternalPipelineOnEveryDevice ==
    last.op = "CreateLlpcInternalComputePipeline" =>
        LET out == last.outcome
        IN  /\ out.result = "VK_SUCCESS" => out.pPipeline = Devices
            /\ (out.pPipelineMem /\ last.fault.pipeFail # {}) =>
                  /\ out.result # "VK_SUCCESS"
                  /\ out.destroyed = out.pPipeline
                  /\ out.memFreed
                  /\ ~out.outputWritten


(***************************************************************************)
(* Properties of PassDeadFuncRemove::runOnModule (SpecDeadFunc).            *)
(***************************************************************************)
\* The functions left in the module before the k-th removal of the run.
AliveBefore(k) ==
    (1 .. last.module.n) \ {last.pass.removals[j] : j \in 1 .. (k - 1)}

\* No function of the set without an entry-point calling convention is unused.
FixedPoint(alive) ==
    \A f \in alive :
        \/ f \in last.module.entries
        \/ \E g \in alive : last.module.uses[g] = f

\* C29: the pass makes at most MaxIterCountOfDetection sweeps; every function
\* it removes has no use left when it is removed and is no entry point, so
\* that the entry points stay; and when it stops before the sweep limit no
\* function other than an entry point is left without a use.
PassStopsAtFixedPoint ==
    last.op = "runOnModule" =>
        LET m == last.module
            p == last.pass
        IN  /\ p.iterCount \in 1 .. MaxIterCountOfDetection
            /\ \A k \in 1 .. Len(p.removals) :
                  /\ p.removals[k] \in AliveBefore(k)
                  /\ p.removals[k] \notin m.entries
                  /\ \A g \in AliveBefore(k) : m.uses[g] # p.removals[k]
            /\ m.entries \subseteq p.alive
            /\ p.alive = (1 .. m.n) \ {p.removals[k] : k \in 1 .. Len(p.removals)}
            /\ p.iterCount < MaxIterCountOfDetection => FixedPoint(p.alive)

\* A run of three sweeps: the second removed a function that was in use
\* until its only user was removed by the first, the third found nothing,
\* and an entry point and what it uses are left.
RemovedInLaterSweep ==
    /\ last.op = "runOnModule"
    /\ last.pass.iterCount = 3
    /\ MaxIterCountOfDetection > 3
    /\ last.pass.removals = <<3, 2>>
    /\ last.module.uses[3] = 2
    /\ last.module.entries # {}
    /\ Cardinality(last.pass.alive) = 2


(***************************************************************************)
(* Properties of the stencil combiner at bind time (SpecBind).              *)
(***************************************************************************)
\* The stencil categories and the combiner values each of them guards.
StencilCats ==
    {"STENCIL_COMPARE_MASK", "STENCIL_WRITE_MASK", "STENCIL_REFERENCE"}

StencilFields(s) ==
    CASE s = "STENCIL_COMPARE_MASK" -> {"frontReadMask", "backReadMask"}
      [] s = "STENCIL_WRITE_MASK"   -> {"frontWriteMask", "backWriteMask"}
      [] s = "STENCIL_REFERENCE"    -> {"frontRef", "backRef"}

\* C30: every bind sets the combiner's front and back op values to the
\* pipeline's; the read masks, the write masks and the references take the
\* pipeline's values for the stencil categories the pipeline bakes and stay
\* as they were for the others; the stencil-state command is requested
\* exactly when one of the three categories is baked, so that a pipeline
\* with all three dynamic changes no mask and no reference.
StencilPushedWhenBaked ==
    last.op = "Bind" =>
        LET info  == pipelines[last.handle].info
            baked == StencilCats \cap info.staticStateMask
        IN  /\ stencil.frontOpValue = info.stencilRefMasks.frontOpValue
            /\ stencil.backOpValue = info.stencilRefMasks.backOpValue
            /\ \A s \in StencilCats : \A fld \in StencilFields(s) :
                  stencil[fld] = IF s \in baked THEN info.stencilRefMasks[fld]
                                 ELSE last.oldStencil[fld]
            /\ last.stencilCmd <=> (baked # {})
            /\ baked = {} =>
                  \A s \in StencilCats : \A fld \in StencilFields(s) :
                      stencil[fld] = last.oldStencil[fld]

\* A pipeline with the three stencil categories dynamic was bound over the
\* values of a pipeline that baked other ones: no command, the values kept.
AllStencilDynamicBound ==
    /\ last.op = "Bind"
    /\ StencilCats \cap pipelines[last.handle].info.staticStateMask = {}
    /\ ~last.stencilCmd
    /\ last.oldStencil.frontRef = 1
    /\ pipelines[last.handle].info.stencilRefMasks.frontRef = 2
    /\ stencil.frontRef = 1
    /\ stencil.frontOpValue = DefaultStencilOpValue

====
